---- MODULE Spec2Model ----
(***************************************************************************)
(* A model of pssh/ssh2_client.py (class SSHClient): the TCP connect retry *)
(* loop, the would-block pump, the authentication chain, the line          *)
(* demultiplexer and the SFTP put/get/mkdir operations.                    *)
(*                                                                         *)
(* Each component is a state machine over its own variables; a component's *)
(* specification starts the other components idle and never moves them.    *)
(* Byte strings and paths are sequences of one-character strings, so that  *)
(* find, split, join, strip and slicing are computed as Python computes    *)
(* them.                                                                   *)
(***************************************************************************)
EXTENDS Integers, Sequences, FiniteSets, TLC

VARIABLES
    \* ---- _connect ----
    num_retries,    \* self.num_retries
    connFails,      \* transport: how many first connect attempts fail
    retries,        \* the retries argument of the running _connect activation
    attempts,       \* number of sock.connect calls made so far
    connPc,         \* "call" | "sleep" | "connected" | "error"
    errRetries,     \* attempt count carried by ConnectionErrorException (0: none)
    \* ---- _eagain ----
    opBlocks,       \* operation: how many first invocations return would-block
    opResult,       \* operation: the definitive result it returns afterwards
    opCalls,        \* invocations of func made so far
    pumpLog,        \* sequence of "call" / "wait" events, in order
    ret,            \* the local ret of _eagain
    pumpPc,         \* "invoke" | "test" | "wait" | "returned"
    \* ---- auth ----
    pkey,           \* self.pkey (None or a private key path)
    allow_agent,    \* self.allow_agent
    password,       \* self.password (None or a secret)
    agentOk,        \* engine: agent_auth succeeds
    identIsFile,    \* os.path.isfile of each IDENTITIES entry
    identOk,        \* engine: publickey auth with each identity succeeds
    pkeyOk,         \* engine: publickey auth with self.pkey succeeds
    pwdOutcome,     \* engine: userauth_password gives "zero" | "nonzero" | "raise"
    identIdx,       \* position of the for loop of _identity_auth
    authLog,        \* the engine auth calls made, in order
    authPc,         \* "auth" | "pkey" | "agent" | "identity" | "password" | "ok" | "failed"
    \* ---- _read_output ----
    rdStream,       \* channel: the bytes the remote has yet to deliver
    rdChunks,       \* channel: the chunks read_func has returned, in order
    rdBlocks,       \* channel: how many reads returned would-block so far
    rdLateBlock,    \* channel: a read after the first loop returned would-block
    remainder,      \* local remainder
    _pos,           \* local _pos
    _size,          \* local _size
    _data,          \* local _data
    yielded,        \* the lines the generator has yielded, in order
    rdPc,           \* "first" | "wait" | "scan" | "next" | "done"
    \* ---- SFTP: the remote side and the engine ----
    rdirs,          \* remote directories, as absolute name sequences
    rfiles,         \* remote files: absolute name sequence -> content
    last_errno,     \* what session.last_errno() returns
    openHandles,    \* remote handles opened and not yet closed
    sftpLog,        \* the SFTP engine calls made, in order
    \* ---- SFTP: the running operation ----
    sftpPc,         \* position in copy_file / mkdir / copy_remote_file
    sftpErr,        \* the exception that ended the operation, or None
    mkArg,          \* mkdir as called from outside: its directory argument
    mkDirectory,    \* mkdir: directory of the running activation
    mkParent,       \* mkdir: parent_path of the running activation
    mkRet,          \* where control goes when the mkdir chain returns
    mkCalls,        \* mkdir: the log length at the start of each outside call
    \* ---- SFTP: the local side and copy_file ----
    ldirs,          \* local directories, as absolute name sequences
    lfiles,         \* local files: absolute name sequence -> content
    argLocal,       \* the local path the operation was called with
    argRemote,      \* the remote path the operation was called with
    argRecurse,     \* the recurse flag the operation was called with
    local_file,     \* local_file of the running activation
    remote_file,    \* remote_file of the running activation
    recurse,        \* recurse of the running activation
    destination,    \* local destination of copy_file
    fh,             \* the remote handle in use, or None
    putData,        \* what the loop over local_fh has yet to yield
    dirStack,       \* the running _copy_dir activations, innermost last
    copyLog,        \* the sftp_put calls made: local and remote path
    sftpBlocks,     \* would-block results given by open, write and read so far
    \* ---- SFTP: copy_remote_file ----
    stage,          \* "put" | "get": which operation of a put-then-get run is on
    getLocal,       \* the local path copy_remote_file is called with
    getData,        \* what the remote handle being read has yet to deliver
    bytesNames,     \* the interpreter is Python 3: listed names are bytes, not str
    \* ---- wait_finished ----
    channel,        \* the channel argument, None when absent
    wfStep,         \* which of the three engine calls is being pumped
    wfRet,          \* ret of _eagain
    wfLog,          \* the engine calls issued, with what each returned
    wfBlocks,       \* would-block results given so far
    wfPc,
    \* ---- run_command ----
    command, sudo, user, shell,   \* the arguments
    _command,       \* the composed string
    executed,       \* what self.execute was called with, None before the call
    rcPc

connVars == <<num_retries, connFails, retries, attempts, connPc, errRetries>>
pumpVars == <<opBlocks, opResult, opCalls, pumpLog, ret, pumpPc>>
authVars == <<pkey, allow_agent, password, agentOk, identIsFile, identOk,
              pkeyOk, pwdOutcome, identIdx, authLog, authPc>>
readVars == <<rdStream, rdChunks, rdBlocks, rdLateBlock, remainder, _pos, _size,
              _data, yielded, rdPc>>
mkVars == <<mkArg, mkDirectory, mkParent, mkRet, mkCalls>>
localFs == <<ldirs, lfiles>>
callArgs == <<argLocal, argRemote, argRecurse>>
copyVars == <<local_file, remote_file, recurse, destination, fh, putData,
              dirStack, copyLog, sftpBlocks>>
getVars == <<stage, getLocal, getData, bytesNames>>
sftpVars == <<rdirs, rfiles, last_errno, openHandles, sftpLog, sftpPc, sftpErr,
              mkVars, localFs, callArgs, copyVars, getVars>>
waitVars == <<channel, wfStep, wfRet, wfLog, wfBlocks, wfPc>>
runVars == <<command, sudo, user, shell, _command, executed, rcPc>>
vars == <<connVars, pumpVars, authVars, readVars, sftpVars, waitVars, runVars>>

\* what each component leaves alone
connOthers == <<pumpVars, authVars, readVars, sftpVars, waitVars, runVars>>
pumpOthers == <<connVars, authVars, readVars, sftpVars, waitVars, runVars>>
authOthers == <<connVars, pumpVars, readVars, sftpVars, waitVars, runVars>>
readOthers == <<connVars, pumpVars, authVars, sftpVars, waitVars, runVars>>
sftpOthers == <<connVars, pumpVars, authVars, readVars, waitVars, runVars>>
waitOthers == <<connVars, pumpVars, authVars, readVars, sftpVars, runVars>>
runOthers == <<connVars, pumpVars, authVars, readVars, sftpVars, waitVars>>

\* LIBSSH2_ERROR_EAGAIN, the would-block sentinel of the engine.
LIBSSH2_ERROR_EAGAIN == -37

None == "None"

(***************************************************************************)
(* Bounds                                                                  *)
(***************************************************************************)
MaxRetries == 4     \* num_retries ranges over 0..MaxRetries
MaxFails == 5       \* the transport fails its first 0..MaxFails connects
MaxBlocks == 4      \* an operation returns would-block 0..MaxBlocks times
MaxStreamLen == 5   \* a channel stream carries 0..MaxStreamLen bytes
MaxChunkLen == 3    \* one read returns 1..MaxChunkLen bytes
MaxReadBlocks == 2  \* reads of one stream return would-block at most this often
MaxPathLen == 4     \* a path argument of mkdir has 1..MaxPathLen characters
MaxRemoteLen == 4   \* a remote path argument of copy_file has 1..MaxRemoteLen characters
MaxDepth == 1       \* a local tree nests directories 0..MaxDepth deep below its top
MaxSftpBlocks == 1  \* open, write and read give would-block at most this often in a run
MaxFileLen == 3     \* a file of a put-then-get run holds 0..MaxFileLen bytes

(***************************************************************************)
(* Idle states of the components                                           *)
(***************************************************************************)
ConnIdle ==
    /\ num_retries = 0 /\ connFails = 0 /\ retries = 1 /\ attempts = 0
    /\ connPc = "idle" /\ errRetries = 0

PumpIdle ==
    /\ opBlocks = 0 /\ opResult = 0 /\ opCalls = 0 /\ pumpLog = <<>>
    /\ ret = None /\ pumpPc = "idle"

AuthIdle ==
    /\ pkey = None /\ allow_agent = FALSE /\ password = None
    /\ agentOk = FALSE /\ identIsFile = <<FALSE, FALSE, FALSE>>
    /\ identOk = <<FALSE, FALSE, FALSE>> /\ pkeyOk = FALSE
    /\ pwdOutcome = "zero" /\ identIdx = 1 /\ authLog = <<>> /\ authPc = "idle"

ReadIdle ==
    /\ rdStream = <<>> /\ rdChunks = <<>> /\ rdBlocks = 0 /\ rdLateBlock = FALSE
    /\ remainder = <<>> /\ _pos = 0 /\ _size = 0 /\ _data = <<>>
    /\ yielded = <<>> /\ rdPc = "idle"

WaitIdle ==
    /\ channel = None /\ wfStep = 1 /\ wfRet = None /\ wfLog = <<>>
    /\ wfBlocks = 0 /\ wfPc = "idle"

RunIdle ==
    /\ command = "" /\ sudo = FALSE /\ user = None /\ shell = None
    /\ _command = "" /\ executed = None /\ rcPc = "idle"

CopyIdle ==
    /\ ldirs = {} /\ lfiles = <<>>
    /\ argLocal = <<>> /\ argRemote = <<>> /\ argRecurse = FALSE
    /\ local_file = <<>> /\ remote_file = <<>> /\ recurse = FALSE
    /\ destination = <<>> /\ fh = None /\ putData = <<>> /\ dirStack = <<>>
    /\ copyLog = <<>> /\ sftpBlocks = 0
    /\ stage = "put" /\ getLocal = <<>> /\ getData = <<>> /\ bytesNames = FALSE

SftpIdle ==
    /\ rdirs = {} /\ rfiles = <<>> /\ last_errno = 0 /\ openHandles = {}
    /\ sftpLog = <<>> /\ sftpPc = "idle" /\ sftpErr = None
    /\ mkArg = <<>> /\ mkDirectory = <<>> /\ mkParent = None /\ mkRet = "idle"
    /\ mkCalls = <<>>
    /\ CopyIdle

(***************************************************************************)
(* SSHClient._connect                                                      *)
(***************************************************************************)
ConnInit ==
    /\ num_retries \in 0..MaxRetries
    /\ connFails \in 0..MaxFails
    /\ retries = 1              \* def _connect(self, retries=1)
    /\ attempts = 0
    /\ connPc = "call"
    /\ errRetries = 0

\* while retries < self.num_retries
MayRetryLeq(r, n) == r <= n
MayRetry(r, n) == r < n

\* self.sock.connect((self.host, self.port)) and the except clause around it
ConnectCall ==
    /\ connPc = "call"
    /\ attempts' = attempts + 1
    /\ IF attempts < connFails
       THEN \* sock_error
            IF MayRetry(retries, num_retries)
            THEN /\ connPc' = "sleep"
                 /\ UNCHANGED errRetries
            ELSE /\ connPc' = "error"
                 /\ errRetries' = retries
       ELSE /\ connPc' = "connected"
            /\ UNCHANGED errRetries
    /\ UNCHANGED <<num_retries, connFails, retries>>
    /\ UNCHANGED connOthers

\* sleep(5); return self._connect(retries=retries+1)
ConnectSleepRetry ==
    /\ connPc = "sleep"
    /\ retries' = retries + 1
    /\ connPc' = "call"
    /\ UNCHANGED <<num_retries, connFails, attempts, errRetries>>
    /\ UNCHANGED connOthers

ConnNext == ConnectCall \/ ConnectSleepRetry

(***************************************************************************)
(* SSHClient._eagain                                                       *)
(***************************************************************************)
\* The definitive results an engine call may give (a return code or a count).
Definitive == {-31, -1, 0, 1, 2}

PumpInit ==
    /\ opBlocks \in 0..MaxBlocks
    /\ opResult \in Definitive
    /\ opCalls = 0
    /\ pumpLog = <<>>
    /\ ret = None
    /\ pumpPc = "invoke"

\* What the operation returns on its i-th invocation (i counted from 1).
OpReturn(i) == IF i <= opBlocks THEN LIBSSH2_ERROR_EAGAIN ELSE opResult

\* ret = func(*args, **kwargs)
PumpInvoke ==
    /\ pumpPc = "invoke"
    /\ opCalls' = opCalls + 1
    /\ ret' = OpReturn(opCalls + 1)
    /\ pumpLog' = Append(pumpLog, "call")
    /\ pumpPc' = "test"
    /\ UNCHANGED <<opBlocks, opResult>>
    /\ UNCHANGED pumpOthers

\* while ret == LIBSSH2_ERROR_EAGAIN
MustWaitNever(r) == FALSE
MustWait(r) == r = LIBSSH2_ERROR_EAGAIN

\* the loop test, and return ret when it fails
PumpTest ==
    /\ pumpPc = "test"
    /\ pumpPc' = IF MustWait(ret) THEN "wait" ELSE "returned"
    /\ UNCHANGED <<opBlocks, opResult, opCalls, pumpLog, ret>>
    /\ UNCHANGED pumpOthers

\* wait_select(self.sock, self.session)
PumpWait ==
    /\ pumpPc = "wait"
    /\ pumpLog' = Append(pumpLog, "wait")
    /\ pumpPc' = "invoke"
    /\ UNCHANGED <<opBlocks, opResult, opCalls, ret>>
    /\ UNCHANGED pumpOthers

PumpNext == PumpInvoke \/ PumpTest \/ PumpWait

(***************************************************************************)
(* SSHClient.auth, _pkey_auth, _identity_auth, _password_auth              *)
(* auth runs before session.set_blocking(0), so the engine calls made here *)
(* give a definitive outcome on their first invocation.                    *)
(***************************************************************************)
IDENTITIES == <<"~/.ssh/id_rsa", "~/.ssh/id_dsa", "~/.ssh/identity">>

\* pub_file = "%s.pub" % ...
PubFile(path) == path \o ".pub"

\* self.password if self.password is not None else ''
Passphrase == IF password # None THEN password ELSE ""

\* session.userauth_publickey_fromfile(user, pub_file, key, passphrase)
PublickeyCall(key, ok) ==
    [method |-> "publickey_fromfile", pub |-> PubFile(key), priv |-> key,
     secret |-> Passphrase, ok |-> ok]

\* session.agent_auth(user)
AgentCall(ok) ==
    [method |-> "agent", pub |-> None, priv |-> None, secret |-> None, ok |-> ok]

\* session.userauth_password(user, password)
PasswordCall(ok) ==
    [method |-> "password", pub |-> None, priv |-> None, secret |-> password,
     ok |-> ok]

AuthInit ==
    /\ pkey \in {None, "/k/id_ed"}
    /\ allow_agent \in BOOLEAN
    /\ password \in {None, "pw"}
    /\ agentOk \in BOOLEAN
    /\ identIsFile \in [1..Len(IDENTITIES) -> BOOLEAN]
    /\ identOk \in [1..Len(IDENTITIES) -> BOOLEAN]
    /\ pkeyOk \in BOOLEAN
    /\ pwdOutcome \in {"zero", "nonzero", "raise"}
    /\ identIdx = 1
    /\ authLog = <<>>
    /\ authPc = "auth"

authConfig == <<pkey, allow_agent, password, agentOk, identIsFile, identOk,
                pkeyOk, pwdOutcome>>

\* auth(): the dispatch on self.pkey and self.allow_agent
AuthEnter ==
    /\ authPc = "auth"
    /\ authPc' = IF pkey # None THEN "pkey"
                 ELSE IF allow_agent THEN "agent" ELSE "identity"
    /\ UNCHANGED <<authConfig, identIdx, authLog>>
    /\ UNCHANGED authOthers

\* return self._pkey_auth(): an exception of the engine call propagates
AfterPkeyFallsBack(ok) == IF ok THEN "ok" ELSE "agent"
AfterPkey(ok) == IF ok THEN "ok" ELSE "failed"

PkeyAuth ==
    /\ authPc = "pkey"
    /\ authLog' = Append(authLog, PublickeyCall(pkey, pkeyOk))
    /\ authPc' = AfterPkey(pkeyOk)
    /\ UNCHANGED <<authConfig, identIdx>>
    /\ UNCHANGED authOthers

\* self.session.agent_auth(self.user) in try/except/else
AgentAuth ==
    /\ authPc = "agent"
    /\ authLog' = Append(authLog, AgentCall(agentOk))
    /\ authPc' = IF agentOk THEN "ok" ELSE "identity"
    /\ UNCHANGED <<authConfig, identIdx>>
    /\ UNCHANGED authOthers

\* if not os.path.isfile(identity_file): continue
IdentitySkip ==
    /\ authPc = "identity"
    /\ identIdx <= Len(IDENTITIES)
    /\ ~identIsFile[identIdx]
    /\ identIdx' = identIdx + 1
    /\ UNCHANGED <<authConfig, authLog, authPc>>
    /\ UNCHANGED authOthers

\* the try/except/else of the loop body: continue on failure, return on success
AfterIdentityGoesOn(ok, i) == <<"identity", i + 1>>
AfterIdentity(ok, i) == IF ok THEN <<"ok", i>> ELSE <<"identity", i + 1>>

IdentityTry ==
    /\ authPc = "identity"
    /\ identIdx <= Len(IDENTITIES)
    /\ identIsFile[identIdx]
    /\ authLog' = Append(authLog,
                         PublickeyCall(IDENTITIES[identIdx], identOk[identIdx]))
    /\ authPc' = AfterIdentity(identOk[identIdx], identIdx)[1]
    /\ identIdx' = AfterIdentity(identOk[identIdx], identIdx)[2]
    /\ UNCHANGED authConfig
    /\ UNCHANGED authOthers

\* except AuthenticationException: if self.password is None: raise
PasswordFallbackAlways(pw) == TRUE
PasswordFallback(pw) == pw # None

\* the loop ends: raise AuthenticationException, caught in auth()
IdentityExhausted ==
    /\ authPc = "identity"
    /\ identIdx > Len(IDENTITIES)
    /\ authPc' = IF PasswordFallback(password) THEN "password" ELSE "failed"
    /\ UNCHANGED <<authConfig, identIdx, authLog>>
    /\ UNCHANGED authOthers

\* if self._eagain(self.session.userauth_password, ...) != 0: raise
PasswordAuth ==
    /\ authPc = "password"
    /\ authLog' = Append(authLog, PasswordCall(pwdOutcome = "zero"))
    /\ authPc' = IF pwdOutcome = "zero" THEN "ok" ELSE "failed"
    /\ UNCHANGED <<authConfig, identIdx>>
    /\ UNCHANGED authOthers

AuthNext ==
    \/ AuthEnter
    \/ PkeyAuth
    \/ AgentAuth
    \/ IdentitySkip
    \/ IdentityTry
    \/ IdentityExhausted
    \/ PasswordAuth

(***************************************************************************)
(* Byte strings: sequences of one-character strings, indexed from 0 as in  *)
(* Python.                                                                 *)
(***************************************************************************)
Min(a, b) == IF a < b THEN a ELSE b

\* s[a:b] for 0 <= a, 0 <= b
Slice(s, a, b) == SubSeq(s, a + 1, Min(b, Len(s)))

\* s[a:]
SliceFrom(s, a) == SubSeq(s, a + 1, Len(s))

\* s.find(c, start) for a one-byte c: the lowest index >= start, or -1
Find(s, c, start) ==
    LET hits == {i \in start..(Len(s) - 1) : s[i + 1] = c}
    IN  IF hits = {} THEN -1 ELSE CHOOSE i \in hits : \A j \in hits : i <= j

Whitespace == {" ", "\n", "\t", "\r"}

\* s.strip()
Strip(s) ==
    LET keep == {i \in 1..Len(s) : s[i] \notin Whitespace}
    IN  IF keep = {} THEN <<>>
        ELSE SubSeq(s, CHOOSE i \in keep : \A j \in keep : i <= j,
                       CHOOSE i \in keep : \A j \in keep : i >= j)

\* every byte string over cs of length 0..n
RECURSIVE StringsUpTo(_, _)
StringsUpTo(cs, n) ==
    IF n = 0 THEN {<<>>}
    ELSE LET shorter == StringsUpTo(cs, n - 1)
         IN  shorter \cup {Append(t, c) : t \in shorter, c \in cs}

(***************************************************************************)
(* SSHClient._read_output                                                  *)
(* read_func is channel.read or channel.read_stderr: it returns            *)
(* (size, data) with size = len(data) > 0 for a chunk, size = 0 at end of  *)
(* stream and size = LIBSSH2_ERROR_EAGAIN when the read would block.       *)
(***************************************************************************)
\* os.linesep on the platforms of interest, one byte
LINESEP == "\n"

Chars == {"a", " ", LINESEP}

ReadInit ==
    /\ rdStream \in StringsUpTo(Chars, MaxStreamLen)
    /\ rdChunks = <<>>
    /\ rdBlocks = 0
    /\ rdLateBlock = FALSE
    /\ remainder = <<>>         \* remainder = b""
    /\ _pos = 0                 \* _pos = 0
    /\ _size = 0
    /\ _data = <<>>
    /\ yielded = <<>>
    /\ rdPc = "first"

\* one call of read_func: the (size, data) it may return and what is left
ReadResults ==
    {[size |-> n, data |-> SubSeq(rdStream, 1, n), rest |-> SliceFrom(rdStream, n),
      block |-> 0] : n \in 1..Min(MaxChunkLen, Len(rdStream))}
    \cup (IF rdStream = <<>>
          THEN {[size |-> 0, data |-> <<>>, rest |-> <<>>, block |-> 0]}
          ELSE {})
    \cup (IF rdBlocks < MaxReadBlocks
          THEN {[size |-> LIBSSH2_ERROR_EAGAIN, data |-> <<>>, rest |-> rdStream,
                 block |-> 1]}
          ELSE {})

ReadCall(r) ==
    /\ _size' = r.size
    /\ _data' = r.data
    /\ rdStream' = r.rest
    /\ rdBlocks' = rdBlocks + r.block
    /\ rdChunks' = IF r.size > 0 THEN Append(rdChunks, r.data) ELSE rdChunks

\* _size, _data = read_func() of lines 194 and 198, with the tests of the
\* two while loops that follow it
ReadFirst ==
    /\ rdPc = "first"
    /\ \E r \in ReadResults :
          /\ ReadCall(r)
          /\ rdPc' = IF r.size = LIBSSH2_ERROR_EAGAIN THEN "wait"
                     ELSE IF r.size > 0 THEN "scan" ELSE "done"
    /\ UNCHANGED <<rdLateBlock, remainder, _pos, yielded>>
    /\ UNCHANGED readOthers

\* wait_select(self.sock, self.session) inside the first while loop
ReadWaitSelect ==
    /\ rdPc = "wait"
    /\ rdPc' = "first"
    /\ UNCHANGED <<rdStream, rdChunks, rdBlocks, rdLateBlock, remainder, _pos,
                   _size, _data, yielded>>
    /\ UNCHANGED readOthers

\* linesep = _data[:_size].find(LINESEP, _pos)
Linesep == Find(Slice(_data, 0, _size), LINESEP, _pos)

\* if linesep > 0
SepFound(i) == i > 0

\* _pos after a yield: advanced only in the branch with an empty remainder
PosAfterYield(rem, pos, i) == IF Len(rem) > 0 THEN pos ELSE i + 1

\* one pass of while _pos < _size with a separator found: yield a line
ScanYield ==
    /\ rdPc = "scan"
    /\ _pos < _size
    /\ SepFound(Linesep)
    /\ yielded' = Append(yielded, remainder \o Strip(Slice(_data, _pos, Linesep)))
    /\ remainder' = <<>>
    /\ _pos' = PosAfterYield(remainder, _pos, Linesep)
    /\ UNCHANGED <<rdStream, rdChunks, rdBlocks, rdLateBlock, _size, _data, rdPc>>
    /\ UNCHANGED readOthers

\* the else branch: remainder += _data[_pos:]; break
ScanBreak ==
    /\ rdPc = "scan"
    /\ _pos < _size
    /\ ~SepFound(Linesep)
    /\ remainder' = remainder \o SliceFrom(_data, _pos)
    /\ rdPc' = "next"
    /\ UNCHANGED <<rdStream, rdChunks, rdBlocks, rdLateBlock, _pos, _size, _data,
                   yielded>>
    /\ UNCHANGED readOthers

\* while _pos < _size fails
ScanEnd ==
    /\ rdPc = "scan"
    /\ _pos >= _size
    /\ rdPc' = "next"
    /\ UNCHANGED <<rdStream, rdChunks, rdBlocks, rdLateBlock, remainder, _pos,
                   _size, _data, yielded>>
    /\ UNCHANGED readOthers

\* _size, _data = read_func(); _pos = 0 and the test of while _size > 0
ReadNext ==
    /\ rdPc = "next"
    /\ \E r \in ReadResults :
          /\ ReadCall(r)
          /\ rdLateBlock' = (rdLateBlock \/ r.size = LIBSSH2_ERROR_EAGAIN)
          /\ rdPc' = IF r.size > 0 THEN "scan" ELSE "done"
    /\ _pos' = 0
    /\ UNCHANGED <<remainder, yielded>>
    /\ UNCHANGED readOthers

RdNext ==
    \/ ReadFirst
    \/ ReadWaitSelect
    \/ ScanYield
    \/ ScanBreak
    \/ ScanEnd
    \/ ReadNext

(***************************************************************************)
(* Paths. A path argument is a byte string; the remote side knows a node   *)
(* by the sequence of its names from the root. A relative path is resolved *)
(* against the directory the SFTP session starts in.                       *)
(***************************************************************************)
SEP == "/"

\* s.split(c): the pieces between the occurrences of c
RECURSIVE Split(_, _)
Split(s, c) ==
    LET i == Find(s, c, 0)
    IN  IF i = -1 THEN <<s>>
        ELSE <<Slice(s, 0, i)>> \o Split(SliceFrom(s, i + 1), c)

\* s.split(c, 1): at most one cut, at the first c
SplitOnce(s, c) ==
    LET i == Find(s, c, 0)
    IN  IF i = -1 THEN <<s>> ELSE <<Slice(s, 0, i), SliceFrom(s, i + 1)>>

\* c.join(parts)
RECURSIVE Join(_, _)
Join(parts, c) ==
    IF parts = <<>> THEN <<>>
    ELSE IF Len(parts) = 1 THEN parts[1]
    ELSE parts[1] \o <<c>> \o Join(Tail(parts), c)

\* [x for x in parts if x]
RECURSIVE NonEmpty(_)
NonEmpty(parts) ==
    IF parts = <<>> THEN <<>>
    ELSE (IF Head(parts) = <<>> THEN <<>> ELSE <<Head(parts)>>)
         \o NonEmpty(Tail(parts))

\* parts[:-1]
ButLast(parts) == IF parts = <<>> THEN <<>> ELSE SubSeq(parts, 1, Len(parts) - 1)

IsAbsolute(s) == s # <<>> /\ s[1] = SEP

\* the directory an SFTP session resolves relative paths against
RemoteHome == << <<"h">> >>

\* the node a remote path names
Resolve(s) ==
    (IF IsAbsolute(s) THEN <<>> ELSE RemoteHome) \o NonEmpty(Split(s, SEP))

Root == <<>>

RemoteIsDir(n) == n = Root \/ n \in rdirs

RemoteIsFile(n) == n \in DOMAIN rfiles

\* sftp.stat(path) finds a node; the empty path names none
StatOk(s) == s # <<>> /\ (RemoteIsDir(Resolve(s)) \/ RemoteIsFile(Resolve(s)))

\* sftp.mkdir(path, mode) can create: the node is new and its parent is a directory
MkdirOk(s) ==
    /\ s # <<>>
    /\ Resolve(s) # Root
    /\ ~RemoteIsDir(Resolve(s)) /\ ~RemoteIsFile(Resolve(s))
    /\ RemoteIsDir(ButLast(Resolve(s)))

\* the engine's code for a failed SFTP request
LIBSSH2_ERROR_SFTP_PROTOCOL == -31

\* session.last_errno() after an engine call: a failed call sets its code; a
\* call that succeeds leaves the code of the last would-block (of this call or
\* an earlier one) or of an earlier failure, or clears it
ErrnoAfter(before, ok) ==
    IF ok THEN {before, LIBSSH2_ERROR_EAGAIN, 0}
    ELSE {LIBSSH2_ERROR_SFTP_PROTOCOL}

Event(op, path, ok) == [op |-> op, path |-> path, ok |-> ok]

(***************************************************************************)
(* SSHClient.mkdir and SSHClient._mkdir                                    *)
(***************************************************************************)
\* _parent_path, by either branch of the try
MkHead(directory) == SplitOnce(directory, SEP)[1]

\* sub_dirs, None when directory holds no separator
MkSubDirs(directory) ==
    IF Len(SplitOnce(directory, SEP)) = 2 THEN SplitOnce(directory, SEP)[2]
    ELSE None

\* _directory = _parent_path if parent_path is None
\*              else '/'.join([parent_path, _parent_path])
MkFull(parent_path, head) ==
    IF parent_path = None THEN head ELSE Join(<<parent_path, head>>, SEP)

_directory == MkFull(mkParent, MkHead(mkDirectory))

\* except SFTPHandleError: self._mkdir(sftp, _directory)
MustCreateAlways(dir) == TRUE
MustCreate(dir) == ~StatOk(dir)

\* if sub_dirs is not None: return self.mkdir(sftp, sub_dirs, parent_path=...)
\* else the chain returns to its caller
MkdirAdvance ==
    IF MkSubDirs(mkDirectory) # None
    THEN /\ mkDirectory' = MkSubDirs(mkDirectory)
         /\ mkParent' = _directory
         /\ sftpPc' = "mkdir"
    ELSE /\ UNCHANGED <<mkDirectory, mkParent>>
         /\ sftpPc' = mkRet

\* self._eagain(sftp.stat, _directory) finds the directory
MkdirProbeFound ==
    /\ sftpPc = "mkdir"
    /\ ~MustCreate(_directory)
    /\ sftpLog' = Append(sftpLog, Event("stat", _directory, TRUE))
    /\ last_errno' \in ErrnoAfter(last_errno, TRUE)
    /\ MkdirAdvance
    /\ UNCHANGED <<rdirs, rfiles, openHandles, sftpErr, mkArg, mkRet, mkCalls>>
    /\ UNCHANGED <<localFs, callArgs, copyVars>>
    /\ UNCHANGED getVars
    /\ UNCHANGED sftpOthers

\* the probe fails and _mkdir creates the directory
MkdirCreate ==
    /\ sftpPc = "mkdir"
    /\ MustCreate(_directory)
    /\ MkdirOk(_directory)
    /\ sftpLog' = sftpLog \o <<Event("stat", _directory, StatOk(_directory)),
                              Event("mkdir", _directory, TRUE)>>
    /\ rdirs' = rdirs \cup {Resolve(_directory)}
    /\ last_errno' \in ErrnoAfter(LIBSSH2_ERROR_SFTP_PROTOCOL, TRUE)
    /\ MkdirAdvance
    /\ UNCHANGED <<rfiles, openHandles, sftpErr, mkArg, mkRet, mkCalls>>
    /\ UNCHANGED <<localFs, callArgs, copyVars>>
    /\ UNCHANGED getVars
    /\ UNCHANGED sftpOthers

\* the probe fails and sftp.mkdir fails: _mkdir raises SFTPIOError
MkdirCreateFails ==
    /\ sftpPc = "mkdir"
    /\ MustCreate(_directory)
    /\ ~MkdirOk(_directory)
    /\ sftpLog' = sftpLog \o <<Event("stat", _directory, StatOk(_directory)),
                              Event("mkdir", _directory, FALSE)>>
    /\ last_errno' \in ErrnoAfter(LIBSSH2_ERROR_SFTP_PROTOCOL, FALSE)
    /\ sftpPc' = "error"
    /\ sftpErr' = "SFTPIOError"
    /\ UNCHANGED <<rdirs, rfiles, openHandles, mkArg, mkDirectory, mkParent, mkRet,
                   mkCalls>>
    /\ UNCHANGED <<localFs, callArgs, copyVars>>
    /\ UNCHANGED getVars
    /\ UNCHANGED sftpOthers

\* a caller invokes mkdir(sftp, mkArg) again after it returned
MkdirAgain ==
    /\ sftpPc = "mkdir_returned"
    /\ Len(mkCalls) < 2
    /\ mkCalls' = Append(mkCalls, Len(sftpLog))
    /\ mkDirectory' = mkArg
    /\ mkParent' = None
    /\ sftpPc' = "mkdir"
    /\ UNCHANGED <<rdirs, rfiles, last_errno, openHandles, sftpLog, sftpErr, mkArg,
                   mkRet>>
    /\ UNCHANGED <<localFs, callArgs, copyVars>>
    /\ UNCHANGED getVars
    /\ UNCHANGED sftpOthers

\* the remote directory states a run may start from: every directory's
\* parent is a directory too
PathChars == {SEP, "a", "b"}

DirNames == {<<"a">>, <<"b">>}

DirUniverse ==
    {RemoteHome} \cup {RemoteHome \o <<n>> : n \in DirNames}
    \cup {RemoteHome \o <<n, m>> : n \in DirNames, m \in {<<"a">>}}

MkdirInit ==
    /\ mkArg \in StringsUpTo(PathChars, MaxPathLen) \ {<<>>}
    /\ rdirs \in {ds \in SUBSET DirUniverse :
                    /\ RemoteHome \in ds
                    /\ \A d \in ds : d = RemoteHome \/ ButLast(d) \in ds}
    /\ rfiles = <<>>
    /\ last_errno \in {0, LIBSSH2_ERROR_EAGAIN}
    /\ openHandles = {}
    /\ sftpLog = <<>>
    /\ sftpPc = "mkdir"
    /\ sftpErr = None
    /\ mkDirectory = mkArg
    /\ mkParent = None
    /\ mkRet = "mkdir_returned"
    /\ mkCalls = <<0>>
    /\ CopyIdle

MkdirNext ==
    \/ MkdirProbeFound
    \/ MkdirCreate
    \/ MkdirCreateFails
    \/ MkdirAgain

(***************************************************************************)
(* The local side                                                          *)
(***************************************************************************)
\* the working directory of the process
LocalCwd == << <<"w">> >>

LocalResolve(s) ==
    (IF IsAbsolute(s) THEN <<>> ELSE LocalCwd) \o NonEmpty(Split(s, SEP))

\* the node is a local directory: the root, the working directory, a listed one
LocalDirNode(n) == n = Root \/ n = LocalCwd \/ n \in ldirs

\* os.path.isdir(path)
LocalIsDir(s) == s # <<>> /\ LocalDirNode(LocalResolve(s))

\* os.listdir(path): the names of the children
ListDir(s) ==
    LET d == LocalResolve(s)
    IN  {n[Len(n)] : n \in {m \in ldirs \cup DOMAIN lfiles :
                              Len(m) = Len(d) + 1 /\ SubSeq(m, 1, Len(d)) = d}}

\* os.path.join(a, b)
OsPathJoin(a, b) ==
    IF IsAbsolute(b) THEN b
    ELSE IF a = <<>> \/ a[Len(a)] = SEP THEN a \o b
    ELSE a \o <<SEP>> \o b

\* what iterating a file opened 'rb' yields: its lines, separators kept
RECURSIVE FileLines(_)
FileLines(content) ==
    LET i == Find(content, "\n", 0)
    IN  IF content = <<>> THEN <<>>
        ELSE IF i = -1 THEN <<content>>
        ELSE <<Slice(content, 0, i + 1)>> \o FileLines(SliceFrom(content, i + 1))

\* f with the value v at x, x added to its domain if new
Store(f, x, v) == [y \in DOMAIN f \cup {x} |-> IF y = x THEN v ELSE f[y]]

(***************************************************************************)
(* SSHClient.copy_file, _copy_dir, sftp_put, _remote_paths_split and       *)
(* _sftp_openfh                                                            *)
(***************************************************************************)
\* '/'.join([_dir for _dir in file_path.split('/') if _dir][:-1])
_remote_paths_split(file_path) ==
    Join(ButLast(NonEmpty(Split(file_path, SEP))), SEP)

\* the operation ends by raising
Raise(ex) == sftpPc' = "error" /\ sftpErr' = ex

\* return from copy_file to its caller: the loop of _copy_dir, or the outside
ReturnPc(stack) == IF stack = <<>> THEN "done" ELSE "copy_dir"

\* if os.path.isdir(local_file) and recurse: return self._copy_dir(...)
\* with file_list = os.listdir(local_dir)
CopyFileDir ==
    /\ sftpPc = "copy_file"
    /\ LocalIsDir(local_file) /\ recurse
    /\ dirStack' = Append(dirStack, [local_dir |-> local_file,
                                     remote_dir |-> remote_file,
                                     todo |-> ListDir(local_file)])
    /\ sftpPc' = "copy_dir"
    /\ UNCHANGED <<rdirs, rfiles, last_errno, openHandles, sftpLog, sftpErr>>
    /\ UNCHANGED <<mkVars, localFs, callArgs>>
    /\ UNCHANGED <<local_file, remote_file, recurse, destination, fh, putData,
                   copyLog, sftpBlocks>>
    /\ UNCHANGED getVars
    /\ UNCHANGED sftpOthers

\* elif os.path.isdir(local_file) and not recurse: raise ValueError
CopyFileDirNoRecurse ==
    /\ sftpPc = "copy_file"
    /\ LocalIsDir(local_file) /\ ~recurse
    /\ Raise("ValueError")
    /\ UNCHANGED <<rdirs, rfiles, last_errno, openHandles, sftpLog>>
    /\ UNCHANGED <<mkVars, localFs, callArgs, copyVars>>
    /\ UNCHANGED getVars
    /\ UNCHANGED sftpOthers

\* destination = self._remote_paths_split(remote_file)
CopyFileSplit ==
    /\ sftpPc = "copy_file"
    /\ ~LocalIsDir(local_file)
    /\ destination' = _remote_paths_split(remote_file)
    /\ sftpPc' = "put_stat"
    /\ UNCHANGED <<rdirs, rfiles, last_errno, openHandles, sftpLog, sftpErr>>
    /\ UNCHANGED <<mkVars, localFs, callArgs>>
    /\ UNCHANGED <<local_file, remote_file, recurse, fh, putData, dirStack,
                   copyLog, sftpBlocks>>
    /\ UNCHANGED getVars
    /\ UNCHANGED sftpOthers

\* self._eagain(sftp.stat, destination) finds the destination
PutStatFound ==
    /\ sftpPc = "put_stat"
    /\ StatOk(destination)
    /\ sftpLog' = Append(sftpLog, Event("stat", destination, TRUE))
    /\ last_errno' \in ErrnoAfter(last_errno, TRUE)
    /\ sftpPc' = "sftp_put"
    /\ UNCHANGED <<rdirs, rfiles, openHandles, sftpErr>>
    /\ UNCHANGED <<mkVars, localFs, callArgs, copyVars>>
    /\ UNCHANGED getVars
    /\ UNCHANGED sftpOthers

\* except SFTPHandleError: self.mkdir(sftp, destination)
PutStatMissing ==
    /\ sftpPc = "put_stat"
    /\ ~StatOk(destination)
    /\ sftpLog' = Append(sftpLog, Event("stat", destination, FALSE))
    /\ last_errno' \in ErrnoAfter(last_errno, FALSE)
    /\ mkDirectory' = destination
    /\ mkParent' = None
    /\ mkRet' = "sftp_put"
    /\ sftpPc' = "mkdir"
    /\ UNCHANGED <<rdirs, rfiles, openHandles, sftpErr, mkArg, mkCalls>>
    /\ UNCHANGED <<localFs, callArgs, copyVars>>
    /\ UNCHANGED getVars
    /\ UNCHANGED sftpOthers

\* self.sftp_put(sftp, local_file, remote_file) is entered
SftpPutEnter ==
    /\ sftpPc = "sftp_put"
    /\ copyLog' = Append(copyLog, [local |-> local_file, remote |-> remote_file])
    /\ sftpPc' = "put_open"
    /\ UNCHANGED <<rdirs, rfiles, last_errno, openHandles, sftpLog, sftpErr>>
    /\ UNCHANGED <<mkVars, localFs, callArgs>>
    /\ UNCHANGED <<local_file, remote_file, recurse, destination, fh, putData,
                   dirStack, sftpBlocks>>
    /\ UNCHANGED getVars
    /\ UNCHANGED sftpOthers

\* sftp.open(path, CREAT | WRITE | TRUNC, mode) can open: the parent is a
\* directory and the node is not one
OpenWriteOk(s) ==
    /\ s # <<>>
    /\ Resolve(s) # Root
    /\ ~RemoteIsDir(Resolve(s))
    /\ RemoteIsDir(ButLast(Resolve(s)))

\* if errno != LIBSSH2_ERROR_EAGAIN: raise SFTPError
OpenfhRaises(errno) == errno # LIBSSH2_ERROR_EAGAIN

\* fh = open_func(remote_file, *args) gives no handle and would-block;
\* wait_select and the loop goes round
PutOpenWouldBlock ==
    /\ sftpPc = "put_open"
    /\ sftpBlocks < MaxSftpBlocks
    /\ sftpBlocks' = sftpBlocks + 1
    /\ sftpLog' = Append(sftpLog, Event("open_eagain", remote_file, FALSE))
    /\ last_errno' = LIBSSH2_ERROR_EAGAIN
    /\ UNCHANGED <<rdirs, rfiles, openHandles, sftpPc, sftpErr>>
    /\ UNCHANGED <<mkVars, localFs, callArgs>>
    /\ UNCHANGED <<local_file, remote_file, recurse, destination, fh, putData,
                   dirStack, copyLog>>
    /\ UNCHANGED getVars
    /\ UNCHANGED sftpOthers

\* open_func gives no handle and a definitive error: SFTPError, which leaves
\* sftp_put and copy_file
PutOpenFails ==
    /\ sftpPc = "put_open"
    /\ ~OpenWriteOk(remote_file)
    /\ sftpLog' = Append(sftpLog, Event("open", remote_file, FALSE))
    /\ last_errno' \in ErrnoAfter(last_errno, FALSE)
    /\ Raise("SFTPError")
    /\ UNCHANGED <<rdirs, rfiles, openHandles>>
    /\ UNCHANGED <<mkVars, localFs, callArgs, copyVars>>
    /\ UNCHANGED getVars
    /\ UNCHANGED sftpOthers

\* open_func gives a handle: the file is created or truncated; the helper
\* returns the handle or raises on the errno it then reads; with the handle,
\* sftp_put opens local_file and starts the loop over it
PutOpenSucceeds ==
    /\ sftpPc = "put_open"
    /\ OpenWriteOk(remote_file)
    /\ sftpLog' = Append(sftpLog, Event("open", remote_file, TRUE))
    /\ rfiles' = Store(rfiles, Resolve(remote_file), <<>>)
    /\ openHandles' = openHandles \cup {Resolve(remote_file)}
    /\ \E e \in ErrnoAfter(last_errno, TRUE) :
          /\ last_errno' = e
          /\ IF OpenfhRaises(e)
             THEN /\ Raise("SFTPError")
                  /\ UNCHANGED <<fh, putData>>
             ELSE /\ fh' = Resolve(remote_file)
                  /\ putData' = FileLines(lfiles[LocalResolve(local_file)])
                  /\ sftpPc' = "put_write"
                  /\ UNCHANGED sftpErr
    /\ UNCHANGED rdirs
    /\ UNCHANGED <<mkVars, localFs, callArgs>>
    /\ UNCHANGED <<local_file, remote_file, recurse, destination, dirStack,
                   copyLog, sftpBlocks>>
    /\ UNCHANGED getVars
    /\ UNCHANGED sftpOthers

\* remote_fh.write(data) in the loop: its result is not looked at
\* remote_fh.write(data) writes data
PutWrite ==
    /\ sftpPc = "put_write"
    /\ putData # <<>>
    /\ rfiles' = [rfiles EXCEPT ![fh] = @ \o Head(putData)]
    /\ sftpLog' = Append(sftpLog, Event("write", remote_file, TRUE))
    /\ last_errno' \in ErrnoAfter(last_errno, TRUE)
    /\ putData' = Tail(putData)
    /\ UNCHANGED <<rdirs, openHandles, sftpPc, sftpErr>>
    /\ UNCHANGED <<mkVars, localFs, callArgs>>
    /\ UNCHANGED <<local_file, remote_file, recurse, destination, fh, dirStack,
                   copyLog, sftpBlocks>>
    /\ UNCHANGED getVars
    /\ UNCHANGED sftpOthers

\* remote_fh.write(data) returns would-block and writes nothing; the loop
\* goes on to the next line
PutWriteWouldBlock ==
    /\ sftpPc = "put_write"
    /\ putData # <<>>
    /\ sftpBlocks < MaxSftpBlocks
    /\ sftpBlocks' = sftpBlocks + 1
    /\ sftpLog' = Append(sftpLog, Event("write_eagain", remote_file, FALSE))
    /\ last_errno' = LIBSSH2_ERROR_EAGAIN
    /\ putData' = Tail(putData)
    /\ UNCHANGED <<rdirs, rfiles, openHandles, sftpPc, sftpErr>>
    /\ UNCHANGED <<mkVars, localFs, callArgs>>
    /\ UNCHANGED <<local_file, remote_file, recurse, destination, fh, dirStack,
                   copyLog>>
    /\ UNCHANGED getVars
    /\ UNCHANGED sftpOthers

\* the loop ends and the with statement closes both files; copy_file returns
PutClose ==
    /\ sftpPc = "put_write"
    /\ putData = <<>>
    /\ openHandles' = openHandles \ {fh}
    /\ fh' = None
    /\ sftpLog' = Append(sftpLog, Event("close", remote_file, TRUE))
    /\ sftpPc' = ReturnPc(dirStack)
    /\ UNCHANGED <<rdirs, rfiles, last_errno, sftpErr>>
    /\ UNCHANGED <<mkVars, localFs, callArgs>>
    /\ UNCHANGED <<local_file, remote_file, recurse, destination, putData,
                   dirStack, copyLog, sftpBlocks>>
    /\ UNCHANGED getVars
    /\ UNCHANGED sftpOthers

Top == dirStack[Len(dirStack)]

\* for file_name in file_list: self.copy_file(local_path, remote_path,
\*                                            recurse=True, sftp=sftp)
CopyDirNext ==
    /\ sftpPc = "copy_dir"
    /\ Top.todo # {}
    /\ \E file_name \in Top.todo :
          /\ local_file' = OsPathJoin(Top.local_dir, file_name)
          /\ remote_file' = Join(<<Top.remote_dir, file_name>>, SEP)
          /\ dirStack' = [dirStack EXCEPT ![Len(dirStack)].todo = @ \ {file_name}]
    /\ recurse' = TRUE
    /\ sftpPc' = "copy_file"
    /\ UNCHANGED <<rdirs, rfiles, last_errno, openHandles, sftpLog, sftpErr>>
    /\ UNCHANGED <<mkVars, localFs, callArgs>>
    /\ UNCHANGED <<destination, fh, putData, copyLog, sftpBlocks>>
    /\ UNCHANGED getVars
    /\ UNCHANGED sftpOthers

\* the loop of _copy_dir ends: _copy_dir and its copy_file return
CopyDirReturn ==
    /\ sftpPc = "copy_dir"
    /\ Top.todo = {}
    /\ dirStack' = ButLast(dirStack)
    /\ sftpPc' = ReturnPc(ButLast(dirStack))
    /\ UNCHANGED <<rdirs, rfiles, last_errno, openHandles, sftpLog, sftpErr>>
    /\ UNCHANGED <<mkVars, localFs, callArgs>>
    /\ UNCHANGED <<local_file, remote_file, recurse, destination, fh, putData,
                   copyLog, sftpBlocks>>
    /\ UNCHANGED getVars
    /\ UNCHANGED sftpOthers

\* the local trees a put may start from: a plain file l, or a directory l
\* holding some of the files f, g, d/f, d/d/f, ...
LocalTop == LocalCwd \o << <<"l">> >>

RECURSIVE Nest(_)
Nest(k) == IF k = 0 THEN <<>> ELSE << <<"d">> >> \o Nest(k - 1)

TreeFiles ==
    {LocalTop \o Nest(k) \o << <<"f">> >> : k \in 0..MaxDepth}
    \cup {LocalTop \o << <<"g">> >>}

\* every directory on the way from LocalTop to one of the files
DirsOf(files) ==
    {LocalTop}
    \cup UNION {{SubSeq(n, 1, k) : k \in Len(LocalTop)..(Len(n) - 1)} : n \in files}

RemoteArgs == StringsUpTo({SEP, "r"}, MaxRemoteLen) \ {<<>>}

RemoteStarts ==
    {ds \in SUBSET {RemoteHome, RemoteHome \o << <<"r">> >>, << <<"r">> >>} :
        RemoteHome \in ds}

\* the state in which copy_file(argLocal, argRemote, argRecurse) is called
CopyFileCalled ==
    /\ rfiles = <<>>
    /\ last_errno \in {0, LIBSSH2_ERROR_EAGAIN}
    /\ openHandles = {}
    /\ sftpLog = <<>>
    /\ sftpPc = "copy_file"
    /\ sftpErr = None
    /\ mkArg = <<>> /\ mkDirectory = <<>> /\ mkParent = None /\ mkRet = "idle"
    /\ mkCalls = <<0>>
    /\ local_file = argLocal
    /\ remote_file = argRemote
    /\ recurse = argRecurse
    /\ destination = <<>> /\ fh = None /\ putData = <<>> /\ dirStack = <<>>
    /\ copyLog = <<>> /\ sftpBlocks = 0
    /\ stage = "put" /\ getData = <<>> /\ bytesNames = FALSE

PutInit ==
    /\ \/ /\ ldirs = {}
          /\ lfiles \in [{LocalTop} -> {<<"x">>}]
       \/ /\ \E files \in SUBSET TreeFiles :
                /\ ldirs = DirsOf(files)
                /\ lfiles = [n \in files |-> <<"x">>]
    /\ argLocal = <<"l">>
    /\ argRemote \in RemoteArgs
    /\ argRecurse \in BOOLEAN
    /\ rdirs \in RemoteStarts
    /\ getLocal = <<>>
    /\ CopyFileCalled

PutNext ==
    \/ CopyFileDir
    \/ CopyFileDirNoRecurse
    \/ CopyFileSplit
    \/ PutStatFound
    \/ PutStatMissing
    \/ MkdirProbeFound
    \/ MkdirCreate
    \/ MkdirCreateFails
    \/ SftpPutEnter
    \/ PutOpenWouldBlock
    \/ PutOpenFails
    \/ PutOpenSucceeds
    \/ PutWrite
    \/ PutWriteWouldBlock
    \/ PutClose
    \/ CopyDirNext
    \/ CopyDirReturn

(***************************************************************************)
(* SSHClient.copy_remote_file and sftp_get, for a remote path that is not  *)
(* a directory                                                             *)
(***************************************************************************)
\* the caller invokes copy_remote_file(argRemote, getLocal) after copy_file
\* returned
GetStart ==
    /\ sftpPc = "done"
    /\ stage = "put"
    /\ stage' = "get"
    /\ remote_file' = argRemote
    /\ local_file' = getLocal
    /\ recurse' = FALSE
    /\ sftpPc' = "get_stat"
    /\ UNCHANGED <<rdirs, rfiles, last_errno, openHandles, sftpLog, sftpErr>>
    /\ UNCHANGED <<mkVars, localFs, callArgs>>
    /\ UNCHANGED <<destination, fh, putData, dirStack, copyLog, sftpBlocks>>
    /\ UNCHANGED <<getLocal, getData, bytesNames>>
    /\ UNCHANGED sftpOthers

\* except SFTPHandleError: the status probe of copy_remote_file fails
GetStatRaisesNever(path) == FALSE
GetStatRaises(path) == ~StatOk(path)

\* self._eagain(sftp.stat, remote_file) finds the path
GetStatFound ==
    /\ sftpPc = "get_stat"
    /\ ~GetStatRaises(remote_file)
    /\ sftpLog' = Append(sftpLog, Event("stat", remote_file, TRUE))
    /\ last_errno' \in ErrnoAfter(last_errno, TRUE)
    /\ sftpPc' = "get_opendir"
    /\ UNCHANGED <<rdirs, rfiles, openHandles, sftpErr>>
    /\ UNCHANGED <<mkVars, localFs, callArgs, copyVars, getVars>>
    /\ UNCHANGED sftpOthers

\* dir_h = self._sftp_openfh(sftp.opendir, remote_file): would-block
GetOpendirWouldBlock ==
    /\ sftpPc = "get_opendir"
    /\ sftpBlocks < MaxSftpBlocks
    /\ sftpBlocks' = sftpBlocks + 1
    /\ sftpLog' = Append(sftpLog, Event("opendir_eagain", remote_file, FALSE))
    /\ last_errno' = LIBSSH2_ERROR_EAGAIN
    /\ UNCHANGED <<rdirs, rfiles, openHandles, sftpPc, sftpErr>>
    /\ UNCHANGED <<mkVars, localFs, callArgs>>
    /\ UNCHANGED <<local_file, remote_file, recurse, destination, fh, putData,
                   dirStack, copyLog>>
    /\ UNCHANGED getVars
    /\ UNCHANGED sftpOthers

\* os.path.join(os.path.sep, os.path.sep.join(
\*     [_dir for _dir in local_file.split('/') if _dir][:-1]))
LocalDestination(path) ==
    OsPathJoin(<<SEP>>, Join(ButLast(NonEmpty(Split(path, SEP))), SEP))

\* sftp.opendir gives no handle for a path that is no directory: the helper
\* raises SFTPError, which copy_remote_file passes over; destination is set
GetOpendirNotDir ==
    /\ sftpPc = "get_opendir"
    /\ ~RemoteIsDir(Resolve(remote_file))
    /\ sftpLog' = Append(sftpLog, Event("opendir", remote_file, FALSE))
    /\ last_errno' \in ErrnoAfter(last_errno, FALSE)
    /\ destination' = LocalDestination(local_file)
    /\ sftpPc' = "get_dest"
    /\ UNCHANGED <<rdirs, rfiles, openHandles, sftpErr>>
    /\ UNCHANGED <<mkVars, localFs, callArgs>>
    /\ UNCHANGED <<local_file, remote_file, recurse, fh, putData, dirStack,
                   copyLog, sftpBlocks>>
    /\ UNCHANGED getVars
    /\ UNCHANGED sftpOthers

\* os.path.exists(path)
LocalExists(s) ==
    s # <<>> /\ (LocalDirNode(LocalResolve(s))
                 \/ LocalResolve(s) \in DOMAIN lfiles)

\* the directories os.makedirs(path) leaves in place
MadeDirs(s) == {SubSeq(LocalResolve(s), 1, k) : k \in 1..Len(LocalResolve(s))}

\* if not os.path.exists(destination): os.makedirs(destination)
GetMakeDest ==
    /\ sftpPc = "get_dest"
    /\ ldirs' = IF LocalExists(destination) THEN ldirs
                ELSE ldirs \cup MadeDirs(destination)
    /\ sftpPc' = "get_local_open"
    /\ UNCHANGED <<rdirs, rfiles, last_errno, openHandles, sftpLog, sftpErr>>
    /\ UNCHANGED <<mkVars, lfiles, callArgs, copyVars, getVars>>
    /\ UNCHANGED sftpOthers

\* open(path, 'wb') can open: the parent is a directory, the node is not one
LocalOpenWriteOk(s) ==
    /\ s # <<>>
    /\ ~LocalDirNode(LocalResolve(s))
    /\ LocalDirNode(ButLast(LocalResolve(s)))

\* sftp_get: open(local_file, 'wb') creates or truncates the local file
GetLocalOpen ==
    /\ sftpPc = "get_local_open"
    /\ LocalOpenWriteOk(local_file)
    /\ lfiles' = Store(lfiles, LocalResolve(local_file), <<>>)
    /\ sftpPc' = "get_open"
    /\ UNCHANGED <<rdirs, rfiles, last_errno, openHandles, sftpLog, sftpErr>>
    /\ UNCHANGED <<mkVars, ldirs, callArgs, copyVars, getVars>>
    /\ UNCHANGED sftpOthers

\* open(local_file, 'wb') raises IOError, which leaves copy_remote_file
GetLocalOpenFails ==
    /\ sftpPc = "get_local_open"
    /\ ~LocalOpenWriteOk(local_file)
    /\ Raise("IOError")
    /\ UNCHANGED <<rdirs, rfiles, last_errno, openHandles, sftpLog>>
    /\ UNCHANGED <<mkVars, localFs, callArgs, copyVars, getVars>>
    /\ UNCHANGED sftpOthers

\* self._sftp_openfh(sftp.open, remote_file, 0, 0): would-block
GetOpenWouldBlock ==
    /\ sftpPc = "get_open"
    /\ sftpBlocks < MaxSftpBlocks
    /\ sftpBlocks' = sftpBlocks + 1
    /\ sftpLog' = Append(sftpLog, Event("open_eagain", remote_file, FALSE))
    /\ last_errno' = LIBSSH2_ERROR_EAGAIN
    /\ UNCHANGED <<rdirs, rfiles, openHandles, sftpPc, sftpErr>>
    /\ UNCHANGED <<mkVars, localFs, callArgs>>
    /\ UNCHANGED <<local_file, remote_file, recurse, destination, fh, putData,
                   dirStack, copyLog>>
    /\ UNCHANGED getVars
    /\ UNCHANGED sftpOthers

\* sftp.open gives a handle on the remote file; the helper returns it or
\* raises on the errno it then reads
GetOpenSucceeds ==
    /\ sftpPc = "get_open"
    /\ RemoteIsFile(Resolve(remote_file))
    /\ sftpLog' = Append(sftpLog, Event("open", remote_file, TRUE))
    /\ openHandles' = openHandles \cup {Resolve(remote_file)}
    /\ \E e \in ErrnoAfter(last_errno, TRUE) :
          /\ last_errno' = e
          /\ IF OpenfhRaises(e)
             THEN /\ Raise("SFTPError")
                  /\ UNCHANGED <<fh, getData>>
             ELSE /\ fh' = Resolve(remote_file)
                  /\ getData' = rfiles[Resolve(remote_file)]
                  /\ sftpPc' = "get_read"
                  /\ UNCHANGED sftpErr
    /\ UNCHANGED <<rdirs, rfiles>>
    /\ UNCHANGED <<mkVars, localFs, callArgs>>
    /\ UNCHANGED <<local_file, remote_file, recurse, destination, putData,
                   dirStack, copyLog, sftpBlocks>>
    /\ UNCHANGED <<stage, getLocal, bytesNames>>
    /\ UNCHANGED sftpOthers

\* for size, data in remote_fh: local_fh.write(data), a chunk being read
GetRead ==
    /\ sftpPc = "get_read"
    /\ getData # <<>>
    /\ \E n \in 1..Min(MaxChunkLen, Len(getData)) :
          /\ lfiles' = [lfiles EXCEPT ![LocalResolve(local_file)] =
                                          @ \o SubSeq(getData, 1, n)]
          /\ getData' = SliceFrom(getData, n)
    /\ sftpLog' = Append(sftpLog, Event("read", remote_file, TRUE))
    /\ last_errno' \in ErrnoAfter(last_errno, TRUE)
    /\ UNCHANGED <<rdirs, rfiles, openHandles, sftpPc, sftpErr>>
    /\ UNCHANGED <<mkVars, ldirs, callArgs, copyVars>>
    /\ UNCHANGED <<stage, getLocal, bytesNames>>
    /\ UNCHANGED sftpOthers

\* the read would block: the handle's iterator yields the sentinel with no
\* data, local_fh.write(b"") writes nothing and the loop goes on
GetReadWouldBlock ==
    /\ sftpPc = "get_read"
    /\ sftpBlocks < MaxSftpBlocks
    /\ sftpBlocks' = sftpBlocks + 1
    /\ sftpLog' = Append(sftpLog, Event("read_eagain", remote_file, FALSE))
    /\ last_errno' = LIBSSH2_ERROR_EAGAIN
    /\ UNCHANGED <<rdirs, rfiles, openHandles, sftpPc, sftpErr>>
    /\ UNCHANGED <<mkVars, localFs, callArgs>>
    /\ UNCHANGED <<local_file, remote_file, recurse, destination, fh, putData,
                   dirStack, copyLog>>
    /\ UNCHANGED getVars
    /\ UNCHANGED sftpOthers

\* return from copy_remote_file to its caller: the loop of _copy_remote_dir,
\* or the outside
GetReturnPc(stack) == IF stack = <<>> THEN "done" ELSE "get_dir"

\* the read reports end of file: the loop ends, the with statement closes
\* both files and copy_remote_file returns
GetClose ==
    /\ sftpPc = "get_read"
    /\ getData = <<>>
    /\ openHandles' = openHandles \ {fh}
    /\ fh' = None
    /\ sftpLog' = Append(sftpLog, Event("close", remote_file, TRUE))
    /\ sftpPc' = GetReturnPc(dirStack)
    /\ UNCHANGED <<rdirs, rfiles, last_errno, sftpErr>>
    /\ UNCHANGED <<mkVars, localFs, callArgs>>
    /\ UNCHANGED <<local_file, remote_file, recurse, destination, putData,
                   dirStack, copyLog, sftpBlocks>>
    /\ UNCHANGED getVars
    /\ UNCHANGED sftpOthers

(***************************************************************************)
(* SSHClient.copy_remote_file on a missing path and on a directory,        *)
(* _sftp_readdir and _copy_remote_dir                                      *)
(***************************************************************************)
\* self._eagain(sftp.stat, remote_file) raises SFTPHandleError:
\* raise SFTPIOError(msg, remote_file)
GetStatMissing ==
    /\ sftpPc = "get_stat"
    /\ GetStatRaises(remote_file)
    /\ sftpLog' = Append(sftpLog, Event("stat", remote_file, FALSE))
    /\ last_errno' \in ErrnoAfter(last_errno, FALSE)
    /\ Raise("SFTPIOError")
    /\ UNCHANGED <<rdirs, rfiles, openHandles>>
    /\ UNCHANGED <<mkVars, localFs, callArgs, copyVars, getVars>>
    /\ UNCHANGED sftpOthers

\* what dir_h.readdir() lists for the directory: its children and the two
\* entries every directory has
DotEntries == {<<".">>, <<".", ".">>}

RemoteListDir(d) ==
    DotEntries
    \cup {n[Len(n)] : n \in {m \in rdirs \cup DOMAIN rfiles :
                               Len(m) = Len(d) + 1 /\ SubSeq(m, 1, Len(d)) = d}}

\* sftp.opendir gives a handle on the directory, and the helper raises on
\* the errno it then reads: copy_remote_file passes over the SFTPError and
\* goes on as for a file; the handle stays open
GetOpendirRaises ==
    /\ sftpPc = "get_opendir"
    /\ RemoteIsDir(Resolve(remote_file))
    /\ \E e \in ErrnoAfter(last_errno, TRUE) :
          /\ OpenfhRaises(e)
          /\ last_errno' = e
    /\ sftpLog' = Append(sftpLog, Event("opendir", remote_file, TRUE))
    /\ openHandles' = openHandles \cup {Resolve(remote_file)}
    /\ destination' = LocalDestination(local_file)
    /\ sftpPc' = "get_dest"
    /\ UNCHANGED <<rdirs, rfiles, sftpErr>>
    /\ UNCHANGED <<mkVars, localFs, callArgs>>
    /\ UNCHANGED <<local_file, remote_file, recurse, fh, putData, dirStack,
                   copyLog, sftpBlocks>>
    /\ UNCHANGED getVars
    /\ UNCHANGED sftpOthers

\* dir_h is returned and recurse is not set: raise ValueError
GetOpendirNoRecurse ==
    /\ sftpPc = "get_opendir"
    /\ RemoteIsDir(Resolve(remote_file))
    /\ ~recurse
    /\ \E e \in ErrnoAfter(last_errno, TRUE) :
          /\ ~OpenfhRaises(e)
          /\ last_errno' = e
    /\ sftpLog' = Append(sftpLog, Event("opendir", remote_file, TRUE))
    /\ openHandles' = openHandles \cup {Resolve(remote_file)}
    /\ Raise("ValueError")
    /\ UNCHANGED <<rdirs, rfiles>>
    /\ UNCHANGED <<mkVars, localFs, callArgs, copyVars, getVars>>
    /\ UNCHANGED sftpOthers

\* dir_h is returned and recurse is set: file_list = self._sftp_readdir(dir_h)
\* and return self._copy_remote_dir(file_list, remote_file, local_file, sftp)
GetOpendirRecurse ==
    /\ sftpPc = "get_opendir"
    /\ RemoteIsDir(Resolve(remote_file))
    /\ recurse
    /\ \E e \in ErrnoAfter(last_errno, TRUE) :
          /\ ~OpenfhRaises(e)
          /\ last_errno' = e
    /\ sftpLog' = Append(sftpLog, Event("opendir", remote_file, TRUE))
    /\ openHandles' = openHandles \cup {Resolve(remote_file)}
    /\ dirStack' = Append(dirStack, [local_dir |-> local_file,
                                     remote_dir |-> remote_file,
                                     todo |-> RemoteListDir(Resolve(remote_file))])
    /\ sftpPc' = "get_dir"
    /\ UNCHANGED <<rdirs, rfiles, sftpErr>>
    /\ UNCHANGED <<mkVars, localFs, callArgs>>
    /\ UNCHANGED <<local_file, remote_file, recurse, destination, fh, putData,
                   copyLog, sftpBlocks>>
    /\ UNCHANGED getVars
    /\ UNCHANGED sftpOthers

\* dir_h.readdir() would block: it yields an empty buffer, which holds no name
GetDirWouldBlock ==
    /\ sftpPc = "get_dir"
    /\ sftpBlocks < MaxSftpBlocks
    /\ sftpBlocks' = sftpBlocks + 1
    /\ sftpLog' = Append(sftpLog, Event("readdir_eagain", Top.remote_dir, FALSE))
    /\ last_errno' = LIBSSH2_ERROR_EAGAIN
    /\ UNCHANGED <<rdirs, rfiles, openHandles, sftpPc, sftpErr>>
    /\ UNCHANGED <<mkVars, localFs, callArgs>>
    /\ UNCHANGED <<local_file, remote_file, recurse, destination, fh, putData,
                   dirStack, copyLog>>
    /\ UNCHANGED getVars
    /\ UNCHANGED sftpOthers

\* if file_name in ['.', '..']: a bytes name equals no str
IsDotEntryNever(file_name) == FALSE
IsDotEntry(file_name) == ~bytesNames /\ file_name \in DotEntries

\* if file_name in ['.', '..']: continue
GetDirSkip ==
    /\ sftpPc = "get_dir"
    /\ \E file_name \in Top.todo :
          /\ IsDotEntry(file_name)
          /\ dirStack' = [dirStack EXCEPT ![Len(dirStack)].todo = @ \ {file_name}]
    /\ UNCHANGED <<rdirs, rfiles, last_errno, openHandles, sftpLog, sftpPc, sftpErr>>
    /\ UNCHANGED <<mkVars, localFs, callArgs>>
    /\ UNCHANGED <<local_file, remote_file, recurse, destination, fh, putData,
                   copyLog, sftpBlocks>>
    /\ UNCHANGED getVars
    /\ UNCHANGED sftpOthers

\* remote_path = os.path.join(remote_dir, file_name)
\* local_path = os.path.join(local_dir, file_name)
\* self.copy_remote_file(remote_path, local_path, sftp=sftp, recurse=True)
GetDirCall ==
    /\ sftpPc = "get_dir"
    /\ ~bytesNames
    /\ \E file_name \in Top.todo :
          /\ ~IsDotEntry(file_name)
          /\ remote_file' = OsPathJoin(Top.remote_dir, file_name)
          /\ local_file' = OsPathJoin(Top.local_dir, file_name)
          /\ copyLog' = Append(copyLog,
                               [local |-> OsPathJoin(Top.local_dir, file_name),
                                remote |-> OsPathJoin(Top.remote_dir, file_name),
                                name |-> file_name])
          /\ dirStack' = [dirStack EXCEPT ![Len(dirStack)].todo = @ \ {file_name}]
    /\ recurse' = TRUE
    /\ sftpPc' = "get_stat"
    /\ UNCHANGED <<rdirs, rfiles, last_errno, openHandles, sftpLog, sftpErr>>
    /\ UNCHANGED <<mkVars, localFs, callArgs>>
    /\ UNCHANGED <<destination, fh, putData, sftpBlocks>>
    /\ UNCHANGED getVars
    /\ UNCHANGED sftpOthers

\* os.path.join(remote_dir, file_name) with a str and a bytes: TypeError
GetDirTypeError ==
    /\ sftpPc = "get_dir"
    /\ bytesNames
    /\ \E file_name \in Top.todo : ~IsDotEntry(file_name)
    /\ Raise("TypeError")
    /\ UNCHANGED <<rdirs, rfiles, last_errno, openHandles, sftpLog>>
    /\ UNCHANGED <<mkVars, localFs, callArgs, copyVars, getVars>>
    /\ UNCHANGED sftpOthers

\* the listing is exhausted: _copy_remote_dir and its copy_remote_file return
GetDirReturn ==
    /\ sftpPc = "get_dir"
    /\ Top.todo = {}
    /\ dirStack' = ButLast(dirStack)
    /\ sftpPc' = GetReturnPc(ButLast(dirStack))
    /\ UNCHANGED <<rdirs, rfiles, last_errno, openHandles, sftpLog, sftpErr>>
    /\ UNCHANGED <<mkVars, localFs, callArgs>>
    /\ UNCHANGED <<local_file, remote_file, recurse, destination, fh, putData,
                   copyLog, sftpBlocks>>
    /\ UNCHANGED getVars
    /\ UNCHANGED sftpOthers

\* sftp.open(remote_file, 0, 0) gives no handle: the path is no regular file;
\* the helper raises SFTPError, which leaves sftp_get and copy_remote_file
GetOpenFails ==
    /\ sftpPc = "get_open"
    /\ ~RemoteIsFile(Resolve(remote_file))
    /\ sftpLog' = Append(sftpLog, Event("open", remote_file, FALSE))
    /\ last_errno' \in ErrnoAfter(last_errno, FALSE)
    /\ Raise("SFTPError")
    /\ UNCHANGED <<rdirs, rfiles, openHandles>>
    /\ UNCHANGED <<mkVars, localFs, callArgs, copyVars, getVars>>
    /\ UNCHANGED sftpOthers

\* the remote trees a get may start from: the directory r under the home
\* directory, holding some of f, d and d/f
RemoteR == RemoteHome \o << <<"r">> >>

RemoteTrees ==
    {t \in [dirs : SUBSET {RemoteR \o << <<"d">> >>},
            files : SUBSET {RemoteR \o << <<"f">> >>,
                            RemoteR \o << <<"d">>, <<"f">> >>}] :
        \A n \in t.files : Len(n) = 4 => ButLast(n) \in t.dirs}

GetRemotes == {<<"r">>, <<"r", SEP, "f">>, <<"r", SEP, "d">>, <<"q">>}

GetLocals == {<<"m">>, <<SEP, "m">>, <<"n", SEP, "m">>}

\* the state in which copy_remote_file(argRemote, getLocal, argRecurse) is
\* called
GetInit ==
    /\ \E t \in RemoteTrees :
          /\ rdirs = {RemoteHome, RemoteR} \cup t.dirs
          /\ rfiles = [n \in t.files |-> <<"x">>]
    /\ ldirs = {}
    /\ lfiles \in {<<>>, [n \in {LocalCwd \o << <<"m">> >>} |-> <<"y">>]}
    /\ argLocal = <<>>
    /\ argRemote \in GetRemotes
    /\ getLocal \in GetLocals
    /\ argRecurse \in BOOLEAN
    /\ bytesNames \in BOOLEAN
    /\ last_errno \in {0, LIBSSH2_ERROR_EAGAIN}
    /\ openHandles = {}
    /\ sftpLog = <<>>
    /\ sftpPc = "get_stat"
    /\ sftpErr = None
    /\ mkArg = <<>> /\ mkDirectory = <<>> /\ mkParent = None /\ mkRet = "idle"
    /\ mkCalls = <<0>>
    /\ local_file = getLocal /\ remote_file = argRemote /\ recurse = argRecurse
    /\ destination = <<>> /\ fh = None /\ putData = <<>> /\ dirStack = <<>>
    /\ copyLog = <<>> /\ sftpBlocks = 0
    /\ stage = "get" /\ getData = <<>>

GetNext ==
    \/ GetStatFound
    \/ GetStatMissing
    \/ GetOpendirWouldBlock
    \/ GetOpendirNotDir
    \/ GetOpendirRaises
    \/ GetOpendirNoRecurse
    \/ GetOpendirRecurse
    \/ GetDirWouldBlock
    \/ GetDirSkip
    \/ GetDirCall
    \/ GetDirTypeError
    \/ GetDirReturn
    \/ GetMakeDest
    \/ GetLocalOpen
    \/ GetLocalOpenFails
    \/ GetOpenWouldBlock
    \/ GetOpenFails
    \/ GetOpenSucceeds
    \/ GetRead
    \/ GetReadWouldBlock
    \/ GetClose

\* a put of the plain file l followed by a get of the same remote path
RoundTripRemotes == {<<"r", SEP, "f">>, <<SEP, "r", SEP, "f">>}

RoundTripLocals == {<<"m">>, <<SEP, "m">>, <<"n", SEP, "m">>}

RoundTripInit ==
    /\ ldirs = {}
    /\ lfiles \in [{LocalTop} -> StringsUpTo({"x", "\n"}, MaxFileLen)]
    /\ argLocal = <<"l">>
    /\ argRemote \in RoundTripRemotes
    /\ argRecurse = FALSE
    /\ rdirs \in RemoteStarts
    /\ getLocal \in RoundTripLocals
    /\ CopyFileCalled

RoundTripNext ==
    \/ CopyFileSplit
    \/ PutStatFound
    \/ PutStatMissing
    \/ MkdirCreate
    \/ SftpPutEnter
    \/ PutOpenWouldBlock
    \/ PutOpenFails
    \/ PutOpenSucceeds
    \/ PutWrite
    \/ PutWriteWouldBlock
    \/ PutClose
    \/ GetStart
    \/ GetStatFound
    \/ GetOpendirWouldBlock
    \/ GetOpendirNotDir
    \/ GetMakeDest
    \/ GetLocalOpen
    \/ GetLocalOpenFails
    \/ GetOpenWouldBlock
    \/ GetOpenSucceeds
    \/ GetRead
    \/ GetReadWouldBlock
    \/ GetClose

(***************************************************************************)
(* SSHClient.wait_finished                                                 *)
(***************************************************************************)
\* the engine calls of lines 225 to 227, in program order
WaitStepsCloseFirst == <<"close", "wait_eof", "wait_closed">>
WaitSteps == <<"wait_eof", "close", "wait_closed">>

WaitInit ==
    /\ channel \in {None, "channel"}
    /\ wfStep = 1
    /\ wfRet = None
    /\ wfLog = <<>>
    /\ wfBlocks = 0
    /\ wfPc = "enter"

\* if channel is None: return
WaitAbsent ==
    /\ wfPc = "enter"
    /\ channel = None
    /\ wfPc' = "returned"
    /\ UNCHANGED <<channel, wfStep, wfRet, wfLog, wfBlocks>>
    /\ UNCHANGED waitOthers

\* the channel is present: self._eagain(channel.wait_eof) is entered
WaitPresent ==
    /\ wfPc = "enter"
    /\ channel # None
    /\ wfPc' = "invoke"
    /\ UNCHANGED <<channel, wfStep, wfRet, wfLog, wfBlocks>>
    /\ UNCHANGED waitOthers

\* ret = func() in _eagain: the engine call gives would-block
WaitInvokeWouldBlock ==
    /\ wfPc = "invoke"
    /\ wfBlocks < MaxBlocks
    /\ wfBlocks' = wfBlocks + 1
    /\ wfRet' = LIBSSH2_ERROR_EAGAIN
    /\ wfLog' = Append(wfLog, [call |-> WaitSteps[wfStep],
                               ret |-> LIBSSH2_ERROR_EAGAIN])
    /\ wfPc' = "test"
    /\ UNCHANGED <<channel, wfStep>>
    /\ UNCHANGED waitOthers

\* ret = func() in _eagain: the engine call gives a definitive result
WaitInvoke ==
    /\ wfPc = "invoke"
    /\ \E r \in Definitive :
          /\ wfRet' = r
          /\ wfLog' = Append(wfLog, [call |-> WaitSteps[wfStep], ret |-> r])
    /\ wfPc' = "test"
    /\ UNCHANGED <<channel, wfStep, wfBlocks>>
    /\ UNCHANGED waitOthers

\* while ret == LIBSSH2_ERROR_EAGAIN: wait_select(self.sock, self.session)
WaitSelect ==
    /\ wfPc = "test"
    /\ MustWait(wfRet)
    /\ wfPc' = "invoke"
    /\ UNCHANGED <<channel, wfStep, wfRet, wfLog, wfBlocks>>
    /\ UNCHANGED waitOthers

\* return ret from _eagain: the next statement of wait_finished, or its end
WaitStepDone ==
    /\ wfPc = "test"
    /\ ~MustWait(wfRet)
    /\ IF wfStep < Len(WaitSteps)
       THEN wfStep' = wfStep + 1 /\ wfPc' = "invoke"
       ELSE wfStep' = wfStep /\ wfPc' = "returned"
    /\ UNCHANGED <<channel, wfRet, wfLog, wfBlocks>>
    /\ UNCHANGED waitOthers

WaitNext ==
    \/ WaitAbsent
    \/ WaitPresent
    \/ WaitInvokeWouldBlock
    \/ WaitInvoke
    \/ WaitSelect
    \/ WaitStepDone

(***************************************************************************)
(* SSHClient.run_command: the command string                               *)
(***************************************************************************)
\* the truth value Python gives a str or None
Truthy(x) == x # None /\ x # ""

\* if sudo and not user: 'sudo -S '   elif user: 'sudo -u %s -S ' % (user,)
SudoPrefixIgnoresUser(s, u) == IF s THEN "sudo -S " ELSE ""
SudoPrefix(s, u) ==
    IF s /\ ~Truthy(u) THEN "sudo -S "
    ELSE IF Truthy(u) THEN "sudo -u " \o u \o " -S "
    ELSE ""

\* if shell: '%s "%s"' % (shell, command)   else: '$SHELL -c "%s"' % (command,)
ShellPart(sh, cmd) ==
    IF Truthy(sh) THEN sh \o " \"" \o cmd \o "\""
    ELSE "$SHELL -c \"" \o cmd \o "\""

\* _command of lines 263 to 274
ComposeCommand(cmd, s, u, sh) ==
    IF ~s /\ ~Truthy(u) /\ ~Truthy(sh) THEN cmd
    ELSE SudoPrefix(s, u) \o ShellPart(sh, cmd)

Commands == {"", "ls", "echo \"a b\""}

Users == {None, "", "u"}

Shells == {None, "", "zsh -c"}

RunInit ==
    /\ command \in Commands
    /\ sudo \in BOOLEAN
    /\ user \in Users
    /\ shell \in Shells
    /\ _command = ""
    /\ executed = None
    /\ rcPc = "compose"

\* lines 263 to 274
RunCompose ==
    /\ rcPc = "compose"
    /\ _command' = ComposeCommand(command, sudo, user, shell)
    /\ rcPc' = "execute"
    /\ UNCHANGED <<command, sudo, user, shell, executed>>
    /\ UNCHANGED runOthers

\* channel = self.execute(_command, use_pty=use_pty)
RunExecute ==
    /\ rcPc = "execute"
    /\ executed' = _command
    /\ rcPc' = "returned"
    /\ UNCHANGED <<command, sudo, user, shell, _command>>
    /\ UNCHANGED runOthers

RunNext ==
    \/ RunCompose
    \/ RunExecute

(***************************************************************************)
(* Specifications                                                          *)
(***************************************************************************)
InitConnect == ConnInit /\ PumpIdle /\ AuthIdle /\ ReadIdle /\ SftpIdle /\ WaitIdle /\ RunIdle
SpecConnect == InitConnect /\ [][ConnNext]_vars

InitPump == PumpInit /\ ConnIdle /\ AuthIdle /\ ReadIdle /\ SftpIdle /\ WaitIdle /\ RunIdle
SpecPump == InitPump /\ [][PumpNext]_vars

InitAuth == AuthInit /\ ConnIdle /\ PumpIdle /\ ReadIdle /\ SftpIdle /\ WaitIdle /\ RunIdle
SpecAuth == InitAuth /\ [][AuthNext]_vars

InitRead == ReadInit /\ ConnIdle /\ PumpIdle /\ AuthIdle /\ SftpIdle /\ WaitIdle /\ RunIdle
SpecRead == InitRead /\ [][RdNext]_vars

InitMkdir == MkdirInit /\ ConnIdle /\ PumpIdle /\ AuthIdle /\ ReadIdle /\ WaitIdle /\ RunIdle
SpecMkdir == InitMkdir /\ [][MkdirNext]_vars

InitPut == PutInit /\ ConnIdle /\ PumpIdle /\ AuthIdle /\ ReadIdle /\ WaitIdle /\ RunIdle
SpecPut == InitPut /\ [][PutNext]_vars

InitWait == WaitInit /\ ConnIdle /\ PumpIdle /\ AuthIdle /\ ReadIdle /\ SftpIdle /\ RunIdle
SpecWait == InitWait /\ [][WaitNext]_vars

InitRun == RunInit /\ ConnIdle /\ PumpIdle /\ AuthIdle /\ ReadIdle /\ SftpIdle /\ WaitIdle
SpecRun == InitRun /\ [][RunNext]_vars

InitGet == GetInit /\ ConnIdle /\ PumpIdle /\ AuthIdle /\ ReadIdle /\ WaitIdle /\ RunIdle
SpecGet == InitGet /\ [][GetNext]_vars

InitRoundTrip == RoundTripInit /\ ConnIdle /\ PumpIdle /\ AuthIdle /\ ReadIdle /\ WaitIdle /\ RunIdle
SpecRoundTrip == InitRoundTrip /\ [][RoundTripNext]_vars

\* wait_select returns and the engine call returns: the pump keeps stepping.
FairSpecPump == SpecPump /\ WF_vars(PumpNext)

(***************************************************************************)
(* C5: with a transport whose first k connects fail, _connect with         *)
(* num_retries = n >= 1 never makes more than n attempts; it ends         *)
(* connected exactly when k < n, after exactly k+1 attempts, and otherwise *)
(* ends in ConnectionErrorException after exactly n attempts, the error    *)
(* carrying the attempt count n.                                           *)
(***************************************************************************)
C5_ConnectRetry ==
    num_retries >= 1 =>
        /\ attempts <= num_retries
        /\ connPc = "connected" =>
              connFails < num_retries /\ attempts = connFails + 1
        /\ connPc = "error" =>
              /\ connFails >= num_retries
              /\ attempts = num_retries
              /\ errRetries = num_retries
        /\ connPc \in {"call", "sleep"} => attempts <= connFails

\* k = 2, n = 3 connects on the third attempt.
C5_Witness ==
    /\ connFails = 2 /\ num_retries = 3
    /\ connPc = "connected" /\ attempts = 3

(***************************************************************************)
(* C6: the pump never returns the would-block sentinel; for an operation   *)
(* that blocks j times and then gives r it makes j+1 invocations with      *)
(* exactly one readiness wait between consecutive invocations (none before *)
(* the first, none after the last), returns r, and it terminates.          *)
(***************************************************************************)
\* call, wait, call, ..., call with n calls
RECURSIVE Alternating(_)
Alternating(n) ==
    IF n <= 1 THEN <<"call">> ELSE <<"call", "wait">> \o Alternating(n - 1)

PumpReturnsRight ==
    pumpPc = "returned" =>
        /\ ret # LIBSSH2_ERROR_EAGAIN
        /\ ret = opResult
        /\ opCalls = opBlocks + 1
        /\ pumpLog = Alternating(opBlocks + 1)

C6_PumpContract ==
    [](PumpReturnsRight) /\ (pumpPc = "invoke" ~> pumpPc = "returned")

C6_Witness ==
    /\ pumpPc = "returned" /\ opBlocks = 3 /\ opCalls = 4
    /\ Len(pumpLog) = 7 /\ ret = opResult

(***************************************************************************)
(* Authentication claims                                                   *)
(***************************************************************************)
AuthDone == authPc \in {"ok", "failed"}

Methods == [i \in 1..Len(authLog) |-> authLog[i].method]

PasswordAttempted == \E i \in 1..Len(authLog) : authLog[i].method = "password"

SomeAttemptOk == \E i \in 1..Len(authLog) : authLog[i].ok

(***************************************************************************)
(* C2: no explicit key, agent allowed; agent auth fails, identity file 1   *)
(* fails and identity file 2 succeeds: auth makes exactly the attempts     *)
(* agent, identity 1, identity 2, in this order, and ends successfully;    *)
(* password auth and identity 3 are never attempted.                       *)
(***************************************************************************)
C2_Scenario ==
    /\ pkey = None /\ allow_agent /\ ~agentOk
    /\ identIsFile[1] /\ ~identOk[1]
    /\ identIsFile[2] /\ identOk[2]

C2_AuthFallbackOrder ==
    C2_Scenario =>
        /\ \E n \in 0..3 :
              authLog = SubSeq(<<AgentCall(FALSE),
                                 PublickeyCall(IDENTITIES[1], FALSE),
                                 PublickeyCall(IDENTITIES[2], TRUE)>>, 1, n)
        /\ authPc # "failed" /\ authPc # "password" /\ authPc # "pkey"
        /\ AuthDone => authPc = "ok" /\ Len(authLog) = 3

C2_Witness ==
    /\ C2_Scenario /\ password # None /\ authPc = "ok" /\ Len(authLog) = 3

(***************************************************************************)
(* C3: with an explicit key, auth makes exactly one engine call, the       *)
(* public-key-file auth with that key and <key>.pub; it succeeds iff that  *)
(* call succeeds, and no agent, identity or password attempt is ever made. *)
(***************************************************************************)
C3_ExplicitKeyOnly ==
    pkey # None =>
        /\ \A i \in 1..Len(authLog) :
              /\ authLog[i].method = "publickey_fromfile"
              /\ authLog[i].priv = pkey
              /\ authLog[i].pub = pkey \o ".pub"
        /\ Len(authLog) <= 1
        /\ authPc \in {"auth", "pkey", "ok", "failed"}
        /\ AuthDone => Len(authLog) = 1 /\ (authPc = "ok" <=> pkeyOk)

\* the explicit key fails although agent, identities and password would work
C3_Witness ==
    /\ pkey # None /\ ~pkeyOk /\ authPc = "failed" /\ Len(authLog) = 1
    /\ allow_agent /\ agentOk /\ password # None /\ pwdOutcome = "zero"
    /\ identIsFile[1] /\ identOk[1]

(***************************************************************************)
(* C4: without an explicit key, password auth is attempted iff every       *)
(* public-key attempt before it (agent when allowed, every identity        *)
(* candidate that is a file) failed and a password was supplied; auth ends *)
(* in failure exactly when no attempted method succeeded.                  *)
(***************************************************************************)
AllPublicKeyFail ==
    /\ ~(allow_agent /\ agentOk)
    /\ \A i \in 1..Len(IDENTITIES) : ~(identIsFile[i] /\ identOk[i])

C4_PasswordLastResort ==
    (pkey = None /\ AuthDone) =>
        /\ PasswordAttempted <=> (AllPublicKeyFail /\ password # None)
        /\ PasswordAttempted =>
              /\ authLog[Len(authLog)].method = "password"
              /\ \A i \in 1..(Len(authLog) - 1) :
                    authLog[i].method # "password" /\ ~authLog[i].ok
        /\ authPc = "failed" <=> ~SomeAttemptOk
        /\ authPc = "ok" <=> SomeAttemptOk
        /\ authPc = "ok" <=>
              \/ ~AllPublicKeyFail
              \/ password # None /\ pwdOutcome = "zero"

\* every key fails, the password is tried and gets a non-success code
C4_Witness ==
    /\ pkey = None /\ allow_agent /\ identIsFile[1] /\ identIsFile[3]
    /\ AllPublicKeyFail /\ password # None /\ pwdOutcome = "nonzero"
    /\ authPc = "failed" /\ PasswordAttempted /\ Len(authLog) = 4

(***************************************************************************)
(* Line demultiplexer claims                                               *)
(***************************************************************************)
\* the concatenation of the chunks read so far
RECURSIVE Concat(_)
Concat(ss) == IF ss = <<>> THEN <<>> ELSE Head(ss) \o Concat(Tail(ss))

\* the separator-terminated lines of s, without their separators
RECURSIVE LinesOf(_)
LinesOf(s) ==
    LET i == Find(s, LINESEP, 0)
    IN  IF i = -1 THEN <<>>
        ELSE <<Slice(s, 0, i)>> \o LinesOf(SliceFrom(s, i + 1))

\* s is a series of separator-terminated lines
Terminated(s) == s = <<>> \/ s[Len(s)] = LINESEP

\* some line starts in one chunk and has its separator in a later one
SplitLine == \E k \in 1..Len(rdChunks) : rdChunks[k][Len(rdChunks[k])] # LINESEP

(***************************************************************************)
(* C1: when the chunks read concatenate to a series of separator-          *)
(* terminated lines, and some line starts in one chunk and gets its        *)
(* separator in a later one, the lines yielded are exactly those lines, in *)
(* order, each once, with no fragment. Stated for the plain case: no read  *)
(* would block after the first chunk, no chunk begins with a separator and *)
(* no line carries whitespace, so that trimming changes nothing.           *)
(***************************************************************************)
C1_PlainCase ==
    /\ rdPc = "done"
    /\ ~rdLateBlock
    /\ rdStream = <<>>
    /\ Terminated(Concat(rdChunks))
    /\ SplitLine
    /\ \A k \in 1..Len(rdChunks) : rdChunks[k][1] # LINESEP
    /\ \A i \in 1..Len(Concat(rdChunks)) : Concat(rdChunks)[i] # " "

C1_SplitLineReassembled ==
    C1_PlainCase => yielded = LinesOf(Concat(rdChunks))

(***************************************************************************)
(* mkdir chain claims                                                      *)
(***************************************************************************)
\* the prefixes of a path, shortest first: its first k components joined
Prefixes(s) ==
    [k \in 1..Len(Split(s, SEP)) |-> Join(SubSeq(Split(s, SEP), 1, k), SEP)]

\* the part of the log made by the c-th outside call of mkdir
CallLog(c) ==
    SubSeq(sftpLog, mkCalls[c] + 1,
           IF c < Len(mkCalls) THEN mkCalls[c + 1] ELSE Len(sftpLog))

IsStat(e) == e.op = "stat"
IsCreate(e) == e.op = "mkdir"

ProbedPaths(log) ==
    [i \in 1..Len(SelectSeq(log, IsStat)) |-> SelectSeq(log, IsStat)[i].path]

(***************************************************************************)
(* C8: for a nested relative path and any initial remote directory state,  *)
(* mkdir probes the prefixes of the path left to right and issues a create *)
(* only for a prefix whose probe just failed; it raises no error, every    *)
(* prefix is a directory when it returns, and a second call on the same    *)
(* path raises no error and issues no create.                              *)
(***************************************************************************)
C8_MkdirIdempotent ==
    ~IsAbsolute(mkArg) =>
        /\ sftpPc # "error"
        /\ \A c \in 1..Len(mkCalls) :
              \E n \in 0..Len(Prefixes(mkArg)) :
                  ProbedPaths(CallLog(c)) = SubSeq(Prefixes(mkArg), 1, n)
        /\ \A i \in 1..Len(sftpLog) :
              IsCreate(sftpLog[i]) =>
                  /\ i > 1
                  /\ sftpLog[i - 1] = Event("stat", sftpLog[i].path, FALSE)
                  /\ sftpLog[i].ok
        /\ sftpPc = "mkdir_returned" =>
              /\ \A k \in 1..Len(Prefixes(mkArg)) :
                    RemoteIsDir(Resolve(Prefixes(mkArg)[k]))
              /\ ProbedPaths(CallLog(Len(mkCalls))) = Prefixes(mkArg)
              /\ Len(mkCalls) = 2 => SelectSeq(CallLog(2), IsCreate) = <<>>

\* a/b with neither directory present: two creates, then a second call
C8_Witness ==
    /\ mkArg = <<"a", SEP, "b">>
    /\ sftpPc = "mkdir_returned" /\ Len(mkCalls) = 2
    /\ Len(SelectSeq(CallLog(1), IsCreate)) = 2
    /\ Len(CallLog(2)) = 2

(***************************************************************************)
(* copy_file claims                                                        *)
(***************************************************************************)
\* the names of a remote path
Components(s) == NonEmpty(Split(s, SEP))

(***************************************************************************)
(* C7: when copy_file is about to open the remote write handle of a path   *)
(* with a directory component, absolute or relative, the parent directory  *)
(* of that very path exists on the remote side, and the directory that was *)
(* probed and created is that parent.                                      *)
(***************************************************************************)
C7_ParentExistsAtOpen ==
    (sftpPc = "put_open" /\ Len(Components(remote_file)) >= 2) =>
        /\ RemoteIsDir(ButLast(Resolve(remote_file)))
        /\ Resolve(destination) = ButLast(Resolve(remote_file))

\* the same for relative remote paths only
C7_RelativeOnly ==
    (sftpPc = "put_open" /\ Len(Components(remote_file)) >= 2
        /\ ~IsAbsolute(remote_file)) =>
        /\ RemoteIsDir(ButLast(Resolve(remote_file)))
        /\ Resolve(destination) = ButLast(Resolve(remote_file))

(***************************************************************************)
(* C10: copy_file of a local directory tree with recurse set ends having   *)
(* called sftp_put exactly once per local file, for the local path of the  *)
(* file and the remote directory joined with the file's relative path, and *)
(* each of these remote files then exists. Stated for a remote directory   *)
(* other than the root and for the runs in which the open helper raised    *)
(* only for an open that gave no handle.                                   *)
(***************************************************************************)
RelativeNames(n) == SubSeq(n, Len(LocalTop) + 1, Len(n))

ExpectedCopies ==
    {[local |-> Join(<<argLocal>> \o RelativeNames(n), SEP),
      remote |-> Join(<<argRemote>> \o RelativeNames(n), SEP)] : n \in DOMAIN lfiles}

SpuriousOpenError ==
    /\ sftpErr = "SFTPError"
    /\ sftpLog # <<>>
    /\ sftpLog[Len(sftpLog)].op \in {"open", "opendir"}
    /\ sftpLog[Len(sftpLog)].ok

RecursivePutEnded ==
    /\ sftpPc \in {"done", "error"}
    /\ LocalIsDir(argLocal) /\ argRecurse
    /\ Components(argRemote) # <<>>
    /\ ~SpuriousOpenError

C10_RecursivePutFidelity ==
    RecursivePutEnded =>
        /\ sftpPc = "done"
        /\ {copyLog[i] : i \in 1..Len(copyLog)} = ExpectedCopies
        /\ Len(copyLog) = Cardinality(ExpectedCopies)
        /\ \A c \in ExpectedCopies : RemoteIsFile(Resolve(c.remote))

\* the same for relative remote directories only
C10_RelativeOnly ==
    (RecursivePutEnded /\ ~IsAbsolute(argRemote)) =>
        /\ sftpPc = "done"
        /\ {copyLog[i] : i \in 1..Len(copyLog)} = ExpectedCopies
        /\ Len(copyLog) = Cardinality(ExpectedCopies)
        /\ \A c \in ExpectedCopies : RemoteIsFile(Resolve(c.remote))

(***************************************************************************)
(* C9: copy_file(l, remote) followed by copy_remote_file(remote, local2),  *)
(* both returning, leaves local2 with the content of l, whatever the file  *)
(* holds and wherever open, write and read gave would-block.               *)
(***************************************************************************)
RoundTripDone == stage = "get" /\ sftpPc = "done"

C9_RoundTrip ==
    RoundTripDone => lfiles[LocalResolve(getLocal)] = lfiles[LocalTop]

\* the same for the runs in which no write gave would-block
C9_NoWriteBlocked ==
    (RoundTripDone /\ \A i \in 1..Len(sftpLog) : sftpLog[i].op # "write_eagain")
        => lfiles[LocalResolve(getLocal)] = lfiles[LocalTop]

(***************************************************************************)
(* C11: in a recursive copy_remote_file no entry named '.' or '..' of a    *)
(* remote listing is copied or recursed into: every get that               *)
(* _copy_remote_dir issues is for a real child of the directory listed, no *)
(* node is got twice, and the nesting of directories stays within the      *)
(* remote tree, so the recursion ends.                                     *)
(***************************************************************************)
RemoteNodes == rdirs \cup DOMAIN rfiles

RealChild(c) ==
    /\ c.name \notin DotEntries
    /\ Resolve(c.remote) \in RemoteNodes
    /\ Len(Resolve(c.remote)) > Len(Resolve(argRemote))
    /\ SubSeq(Resolve(c.remote), 1, Len(Resolve(argRemote))) = Resolve(argRemote)
    /\ c.remote[Len(c.remote)] \notin {".", SEP}

C11_DotEntriesSkipped ==
    /\ \A i \in 1..Len(copyLog) : RealChild(copyLog[i])
    /\ \A i, j \in 1..Len(copyLog) :
          Resolve(copyLog[i].remote) = Resolve(copyLog[j].remote) => i = j
    /\ Len(dirStack) <= Cardinality(rdirs)

C11_Witness ==
    /\ sftpPc = "done"
    /\ argRemote = <<"r">>
    /\ Len(copyLog) = 3
    /\ \E i \in 1..Len(sftpLog) : sftpLog[i].op = "readdir_eagain"

(***************************************************************************)
(* C12: when copy_file or copy_remote_file has returned or raised, no      *)
(* remote file or directory handle that it opened is still open.           *)
(***************************************************************************)
OperationEnded == sftpPc \in {"done", "error"}

C12_HandlesReleased == OperationEnded => openHandles = {}

\* the same for the operations that met no directory handle and no handle
\* dropped by the open helper
NoHandleDropped ==
    \A i \in 1..Len(sftpLog) :
        /\ sftpLog[i].op # "opendir" \/ ~sftpLog[i].ok
        /\ (sftpLog[i].op = "open" /\ sftpLog[i].ok /\ sftpErr = "SFTPError")
               => i < Len(sftpLog)

C12_FileHandlesReleased ==
    (OperationEnded /\ NoHandleDropped) => openHandles = {}

(***************************************************************************)
(* C13: wait_finished on a present channel issues wait_eof, close and      *)
(* wait_closed in that order, each repeated as long as it gives            *)
(* would-block and left only on another result, after which the next one   *)
(* starts; on an absent channel it issues no engine call.                  *)
(***************************************************************************)
StepOf(c) == CHOOSE k \in 1..3 : <<"wait_eof", "close", "wait_closed">>[k] = c

WellOrdered(log) ==
    /\ log # <<>> => log[1].call = "wait_eof"
    /\ \A i \in 1..(Len(log) - 1) :
          IF log[i].ret = LIBSSH2_ERROR_EAGAIN
          THEN log[i + 1].call = log[i].call
          ELSE StepOf(log[i + 1].call) = StepOf(log[i].call) + 1

WaitReturned == wfPc = "returned"

C13_WaitFinishedOrder ==
    /\ channel = None => wfLog = <<>>
    /\ WellOrdered(wfLog)
    /\ (WaitReturned /\ channel # None) =>
           /\ wfLog # <<>>
           /\ wfLog[Len(wfLog)].call = "wait_closed"
           /\ wfLog[Len(wfLog)].ret # LIBSSH2_ERROR_EAGAIN

C13_Witness ==
    /\ WaitReturned
    /\ channel # None
    /\ \E i, j, k \in 1..Len(wfLog) :
          /\ i < j /\ j < k
          /\ wfLog[i].call = "wait_eof" /\ wfLog[i].ret = LIBSSH2_ERROR_EAGAIN
          /\ wfLog[j].call = "close" /\ wfLog[j].ret = LIBSSH2_ERROR_EAGAIN
          /\ wfLog[k].call = "wait_closed" /\ wfLog[k].ret = LIBSSH2_ERROR_EAGAIN

(***************************************************************************)
(* C16: for every combination of sudo, user and shell the string that      *)
(* run_command composes and passes to execute is the command itself when   *)
(* none of the three is requested, and otherwise the prefix for the case   *)
(* (sudo alone: 'sudo -S '; a user, with or without sudo:                  *)
(* 'sudo -u <user> -S '; shell alone: none) followed by                    *)
(* '<shell> "<command>"' or, with no shell, '$SHELL -c "<command>"'.       *)
(* A user or shell that is None or empty is one that is not requested.     *)
(***************************************************************************)
Given(x) == x \notin {None, ""}

Quoted(cmd) == "\"" \o cmd \o "\""

ExpectedCommand ==
    CASE ~sudo /\ ~Given(user) /\ ~Given(shell) -> command
      [] sudo /\ ~Given(user) /\ ~Given(shell) ->
             "sudo -S $SHELL -c " \o Quoted(command)
      [] sudo /\ ~Given(user) /\ Given(shell) ->
             "sudo -S " \o shell \o " " \o Quoted(command)
      [] Given(user) /\ ~Given(shell) ->
             "sudo -u " \o user \o " -S $SHELL -c " \o Quoted(command)
      [] Given(user) /\ Given(shell) ->
             "sudo -u " \o user \o " -S " \o shell \o " " \o Quoted(command)
      [] ~sudo /\ ~Given(user) /\ Given(shell) ->
             shell \o " " \o Quoted(command)

C16_CommandComposition ==
    /\ rcPc \in {"execute", "returned"} => _command = ExpectedCommand
    /\ rcPc = "returned" => executed = ExpectedCommand

C16_Witness ==
    /\ rcPc = "returned"
    /\ sudo /\ user = "u" /\ shell = "zsh -c" /\ command = "ls"
    /\ executed = "sudo -u u -S zsh -c \"ls\""

(***************************************************************************)
(* C14: copy_remote_file on an existing remote directory with recurse not  *)
(* set ends with ValueError whatever would-block results the directory     *)
(* open met, and never goes on as for a regular file: no local directory   *)
(* or file is created, none is truncated or written.                       *)
(***************************************************************************)
\* every local file still holds what it held at the call, nothing was made
LocalUntouched ==
    /\ ldirs = {}
    /\ \A n \in DOMAIN lfiles : lfiles[n] = <<"y">>

DirectoryWithoutRecurse ==
    stage = "get" /\ RemoteIsDir(Resolve(argRemote)) /\ ~argRecurse

C14_DirectoryNeedsRecurse ==
    DirectoryWithoutRecurse =>
        /\ LocalUntouched
        /\ sftpPc \in {"get_stat", "get_opendir", "error"}
        /\ sftpPc = "error" => sftpErr = "ValueError"

(***************************************************************************)
(* C15: copy_remote_file on a remote path whose status probe fails ends    *)
(* with SFTPIOError for that path and changes nothing: no local directory  *)
(* is created, no local file is created or truncated, no remote handle is  *)
(* opened or asked for.                                                    *)
(***************************************************************************)
ProbeFails == stage = "get" /\ ~StatOk(argRemote)

C15_MissingRemotePath ==
    ProbeFails =>
        /\ LocalUntouched
        /\ openHandles = {}
        /\ \A i \in 1..Len(sftpLog) : sftpLog[i].op = "stat"
        /\ sftpPc \in {"get_stat", "error"}
        /\ sftpPc = "error" => (sftpErr = "SFTPIOError" /\ remote_file = argRemote)

C15_Witness ==
    /\ ProbeFails
    /\ sftpPc = "error"
    /\ sftpErr = "SFTPIOError"
    /\ getLocal = <<"m">>
    /\ lfiles # <<>>

(***************************************************************************)
(* C17: _sftp_openfh returns the handle whenever the open call yielded     *)
(* one, on the first invocation or after would-block retries, and raises   *)
(* SFTPError only when the open call ended with no handle and an error     *)
(* other than would-block.                                                 *)
(***************************************************************************)
LastEvent == sftpLog[Len(sftpLog)]

HandleYielded ==
    sftpLog # <<>> /\ LastEvent.op \in {"open", "opendir"} /\ LastEvent.ok

HelperRaised == sftpPc = "error" /\ sftpErr = "SFTPError"

C17_OpenHelperReturnsHandle ==
    /\ HandleYielded => ~HelperRaised
    /\ HelperRaised => (LastEvent.op \in {"open", "opendir"} /\ ~LastEvent.ok)

\* the part of it that the code keeps: an open call that ended with no
\* handle and an error other than would-block raises
C17_NoHandleRaises ==
    (sftpLog # <<>> /\ LastEvent.op = "open" /\ ~LastEvent.ok) => HelperRaised

(***************************************************************************)
(* C18: every raw read of _read_output, the first one and each later one,  *)
(* is repeated on would-block, so the line sequence ends only at a read    *)
(* that reports end of stream: when it has ended nothing that the remote   *)
(* sent is left unread.                                                    *)
(***************************************************************************)
ReadEnded == rdPc = "done"

C18_EveryReadRetried == ReadEnded => rdStream = <<>>

\* the same for the runs in which only reads before the first chunk gave
\* would-block
C18_FirstReadRetried == (ReadEnded /\ ~rdLateBlock) => rdStream = <<>>

(***************************************************************************)
(* C19: a separator found at the current scan position of _read_output,    *)
(* the first byte of a chunk included, is handled as a found separator:    *)
(* the accumulated remainder (or an empty line) is yielded, the remainder  *)
(* is reset and the scan moves past the separator.                         *)
(***************************************************************************)
SepAtScanPosition ==
    /\ rdPc = "scan"
    /\ _pos < _size
    /\ _data[_pos + 1] = LINESEP

C19_SeparatorAtScanPosition ==
    [][SepAtScanPosition =>
          /\ yielded' = Append(yielded, remainder)
          /\ remainder' = <<>>
          /\ _pos' = _pos + 1
          /\ rdPc' = "scan"]_vars

\* the same for a separator at the scan position that is not the first byte
\* of the chunk
C19_LaterSeparator ==
    [][(SepAtScanPosition /\ _pos > 0) =>
          /\ yielded' = Append(yielded, remainder)
          /\ remainder' = <<>>
          /\ _pos' = _pos + 1
          /\ rdPc' = "scan"]_vars

(***************************************************************************)
(* C20: in copy_remote_file of a single remote file to a local path,       *)
(* relative or absolute, the parent directory of that local path exists    *)
(* when the local file is opened for writing, made by the call if it was   *)
(* missing.                                                                *)
(***************************************************************************)
LocalParent(path) == ButLast(LocalResolve(path))

SingleFileAtLocalOpen ==
    /\ stage = "get" /\ dirStack = <<>> /\ sftpPc = "get_local_open"
    /\ RemoteIsFile(Resolve(remote_file))

C20_LocalParentExistsAtOpen ==
    SingleFileAtLocalOpen => LocalDirNode(LocalParent(local_file))

\* the same for absolute local paths, where the directory checked and made
\* is the parent of the path opened
C20_AbsoluteOnly ==
    (SingleFileAtLocalOpen /\ IsAbsolute(local_file)) =>
        /\ LocalDirNode(LocalParent(local_file))
        /\ LocalResolve(destination) = LocalParent(local_file)

(***************************************************************************)
(* C21: _read_output loses no data at end of stream: when the sequence     *)
(* has ended at a read that reported end of stream, every byte read that   *)
(* is neither a separator nor trimmed whitespace is part of a yielded      *)
(* line; a last line with no separator after it, held in the remainder,    *)
(* is yielded before the sequence ends. Stated for the streams in which no *)
(* chunk begins with a separator.                                          *)
(***************************************************************************)
\* how many bytes of s are line content
RECURSIVE Content(_)
Content(s) ==
    IF s = <<>> THEN 0
    ELSE (IF Head(s) \in {LINESEP, " "} THEN 0 ELSE 1) + Content(Tail(s))

EndOfStream ==
    /\ rdPc = "done"
    /\ rdStream = <<>>
    /\ _size = 0
    /\ \A k \in 1..Len(rdChunks) : rdChunks[k][1] # LINESEP

C21_NoDataLostAtEof ==
    EndOfStream =>
        /\ Content(Concat(yielded)) >= Content(Concat(rdChunks))
        /\ Content(remainder) > 0 =>
               (yielded # <<>> /\ yielded[Len(yielded)] = Strip(remainder))

\* the same for the streams that end with a separator
C21_TerminatedStreams ==
    (EndOfStream /\ Terminated(Concat(rdChunks))) =>
        Content(Concat(yielded)) >= Content(Concat(rdChunks))

====
